---- MODULE Spec2Model ----
(***************************************************************************)
(* Verification model of the aizoomdoc-server core:                        *)
(*   - the request queue (app/services/queue_service.py),                  *)
(*   - the per-request pipeline (app/services/agent_service.py).           *)
(*                                                                         *)
(* asyncio is cooperative: a coroutine runs without interruption from one  *)
(* suspension point (a yield of the stream, or an await that really waits) *)
(* to the next, so every action below is one such run.  The queue's        *)
(* asyncio.Lock only ever guards code without suspension points, hence it  *)
(* is free at every suspension point and needs no variable of its own.     *)
(***************************************************************************)
EXTENDS Integers, Sequences, FiniteSets, TLC

\* ------------------------------------------------------------------------
\* Bounds and program constants
\* ------------------------------------------------------------------------

\* settings.queue_max_concurrent (semaphore capacity)
MaxConcurrent == 2

\* settings.queue_max_size, scaled down
MaxSize == 2

\* number of requests submitted to the queue
NumReq == 4

\* event counters saturate at this value
EvCap == 2

\* longest raw answer text of the token-stream specification
MaxJsonLen == 3

\* max_iterations of the answerer loop
MaxIterations == 5

Req == 1..NumReq

\* the request whose event stream and pipeline are followed step by step
Obs == 0

Ids == Req \cup {Obs}

\* StreamEvent.event
Kinds ==
    {"queue_position", "processing_started", "error", "completed",
     "phase_started", "phase_progress", "llm_thinking", "llm_token",
     "llm_final", "tool_call", "image_ready"}

\* the kinds whose events are counted
Counted ==
    {"processing_started", "error", "completed", "llm_token", "llm_final"}

\* ------------------------------------------------------------------------
\* State
\* ------------------------------------------------------------------------

VARIABLES
    waiting,        \* QueueService._waiting_requests (its key set)
    order,          \* QueueService._request_order
    active,         \* QueueService._active_requests (its key set)
    sem,            \* QueueService._semaphore._value (free permits)
    semWaiters,     \* FIFO of acquire tasks blocked in the semaphore
    pc,             \* where each execute_with_queue generator is suspended
    acq,            \* state of each request's acquire task
    cnt,            \* stream of Obs: events of each kind (saturating)
    last,           \* stream of Obs: kind of its last event
    how,            \* stream of Obs: how it ended
    ppc,            \* where process_message of Obs is suspended
    outq,           \* events the current run of Obs yields back to back
    profile,        \* "simple", "complex" or "compare"
    visual,         \* analysis_intent.requires_visual_detail
    hasAttach,      \* google_file_uris is not empty
    blockMap,       \* block_map: ids of the documents' IMAGE blocks
    mat,            \* materials_json is not None
    matBlocks,      \* ids of the IMAGE blocks of materials_json["blocks"]
    images,         \* materials_json["images"], as (block_id, kind, bbox)
    iteration,      \* the answerer loop's counter
    fuImages,       \* image requests waiting for _build_materials
    fuRois,         \* ROI requests waiting for _build_materials
    persisted,      \* assistant messages stored for Obs
    imgEvents,      \* image_ready events per image key (saturating)
    prod,           \* what process_message of Obs yielded: events of each
                    \* kind (saturating) and the kind of the last one
    texts,          \* the raw answers the model may stream
    dq,             \* DeletionService._queue: the items not yet taken
    ready,          \* the event loop's ready callbacks of the deletion
                    \* service: queue.put tasks and the worker's wake-up
    running,        \* DeletionService._running
    wpc,            \* where DeletionService._worker is
    cur,            \* chat_id of the cascade at hand
    todo,           \* storage_paths not yet handed to delete_file
    steps,          \* the steps of the cascade at hand, in the order they
                    \* were attempted, each with its outcome
    processed,      \* the chat ids whose _process_deletion returned
    spc,            \* where DeletionService.stop is
    late,           \* the 10 s of wait_for in stop have passed
    before,         \* the chat ids scheduled before stop was called
    linkMap,        \* block_map: linked_block_ids of each block in it
    selectedIds,    \* flash_response.selected_blocks, as block ids
    flashSel,       \* the block ids the collector had selected
    covered,        \* _apply_coverage_check has returned
    ids,            \* the block ids the models may name
    raw,            \* the text the current stream delivers
    fed,            \* Len(accumulated_text): the part of raw already delivered
    tokAcc,         \* accumulated field of the last llm_token event
    tokPass,        \* the iteration that emitted it (0: no llm_token yet)
    tokSum,         \* the token fields of the llm_token events of that
                    \* iteration, one after the other
    finalText,      \* final_answer.answer_markdown (complex profile)
    cacheOn,        \* RenderCacheManager.enabled
    rows,           \* table cache_entries, by cache_key, with the file's state
    now,            \* datetime.utcnow(), in ticks
    cres,           \* the last cache call: operation, key and what it returned
    stored,         \* per key: bytes and time of the last put that succeeded
                    \* and whose entry no cache call has removed since
    inval,          \* keys of an invalidated source with no put since
    seenKeys,       \* _build_materials: seen_keys
    calls,          \* _build_materials: the block ids it looked up a crop
                    \* for and those it called a renderer with
    gres,           \* the quality gate of the pass at hand: what the answer
                    \* carried, whether the ROI requester was called and
                    \* whether the answer's own requests were kept
    allBad          \* the follow-ups proposed in the pass at hand were all
                    \* ill-formed ids

\* the render cache and what is recorded about its calls
cvars == <<cacheOn, rows, now, cres, stored, inval>>

\* the materials builder's own state, and what is recorded about a pass
bvars == <<seenKeys, calls, gres, allBad>>

\* the deletion service and what is recorded about its runs
dvars == <<dq, ready, running, wpc, cur, todo, steps, processed, spc, late,
           before>>

\* the coverage check of one collector response
kvars == <<linkMap, selectedIds, flashSel, covered>>

\* what is recorded about the texts of a stream
tvars == <<tokSum, finalText>>

qvars == <<waiting, order, active, sem, semWaiters>>
evars == <<cnt, last, how>>
pvars == <<ppc, outq, profile, visual, hasAttach, blockMap, mat, matBlocks,
           images, iteration, fuImages, fuRois, persisted, imgEvents, prod,
           texts, dvars, kvars, cvars, bvars, ids, raw, fed, tokAcc, tokPass, tvars>>
vars == <<waiting, order, active, sem, semWaiters, pc, acq,
          cnt, last, how,
          ppc, outq, profile, visual, hasAttach, blockMap, mat, matBlocks,
          images, iteration, fuImages, fuRois, persisted, imgEvents, prod,
          texts, dvars, kvars, cvars, bvars, ids, raw, fed, tokAcc, tokPass, tvars>>

\* ------------------------------------------------------------------------
\* Helpers
\* ------------------------------------------------------------------------

RECURSIVE SeqWithout(_, _)
\* list.remove(x) guarded by "x in list": drops the first occurrence of x
SeqWithout(s, x) ==
    IF s = <<>> THEN <<>>
    ELSE IF Head(s) = x THEN Tail(s)
    ELSE <<Head(s)>> \o SeqWithout(Tail(s), x)

\* the members of the sequence s
Range(s) == {s[i] : i \in 1..Len(s)}

RECURSIVE IndexOf(_, _)
\* list.index(x), 1-based; 0 when x is absent (Python raises ValueError)
IndexOf(s, x) ==
    IF s = <<>> THEN 0
    ELSE IF Head(s) = x THEN 1
    ELSE LET i == IndexOf(Tail(s), x) IN IF i = 0 THEN 0 ELSE i + 1

Bump(n) == IF n < EvCap THEN n + 1 ELSE EvCap

\* the stream of request r gets one more event of kind k; only the stream of
\* Obs is recorded
Emit(r, k) ==
    IF r = Obs
    THEN /\ cnt' = IF k \in Counted THEN [cnt EXCEPT ![k] = Bump(@)] ELSE cnt
         /\ last' = k
    ELSE UNCHANGED <<cnt, last>>

\* the stream of request r ends, or gets its terminal event, in the way h
Ends(r, h) ==
    how' = IF r = Obs THEN h ELSE how

\* the stream of request r has ended
Ended(r) == pc[r] \in {"done", "rejected"}

\* request ids are fresh uuid4 values: id r is the r-th one handed out
FreshId(r) == \A q \in Req : q < r => pc[q] # "new"

\* mutant of Position: the length of the list instead of the index
Position_ListLength(r, w, o) ==
    IF r \in w THEN Len(o) ELSE 0

\* QueueService._get_queue_status_unlocked: the position field
Position(r, w, o) ==
    IF r \in w
    THEN IF IndexOf(o, r) > 0 THEN IndexOf(o, r) ELSE Len(o)
    ELSE 0

\* mutant of QueueFull: the cap is tested with > instead of >=
QueueFull_OffByOne(w) == Cardinality(w) > MaxSize

\* QueueService.enqueue: the capacity test
QueueFull(w) == Cardinality(w) >= MaxSize

\* nothing was yielded by process_message
NoProd == [n |-> [k \in Counted |-> 0], last |-> "none"]

\* no quality gate has run in the pass at hand
NoGate ==
    [ran |-> FALSE, vis |-> FALSE, bare |-> FALSE, called |-> FALSE,
     same |-> TRUE, unrouted |-> FALSE]

\* no gate has run in the pass that begins; unrouted: the intent of the
\* request is the empty one the router's failure left
NextPass == [NoGate EXCEPT !.unrouted = gres.unrouted]

\* the quality gate ran with requires_visual_detail = vis on an answer with
\* the follow-up requests ansI and ansR and with (cited) or without a
\* citation of kind roi, and left the requests fu; bare: the answer neither
\* cites a ROI nor asks for anything
GateRecord(vis, ansI, ansR, cited, called, fu) ==
    [ran |-> TRUE, vis |-> vis,
     bare |-> ~cited /\ ansI = <<>> /\ ansR = <<>>,
     called |-> called, same |-> fu = <<ansI, ansR>>,
     unrouted |-> gres.unrouted]

\* the generator of request r is closed: the frames of process_message and of
\* its mode generator are gone; what went out on the stream and what was
\* stored stay
DropFrame(r) ==
    IF r = Obs
    THEN /\ ppc' = "idle"
         /\ outq' = <<>>
         /\ profile' = "none"
         /\ visual' = FALSE
         /\ hasAttach' = FALSE
         /\ blockMap' = {}
         /\ mat' = FALSE
         /\ matBlocks' = {}
         /\ images' = <<>>
         /\ iteration' = 0
         /\ fuImages' = <<>>
         /\ fuRois' = <<>>
         /\ raw' = <<>>
         /\ fed' = 0
         /\ gres' = NoGate
         /\ UNCHANGED <<persisted, imgEvents, prod, texts, dvars, kvars, cvars, seenKeys, calls,
                        allBad, ids, tokAcc, tokPass, tvars>>
    ELSE UNCHANGED pvars

\* acquire_task is a local of the generator: once the generator is gone the
\* result of a finished task is gone with it
Forgotten(a) == IF a \in {"true", "false"} THEN "none" ELSE a

\* asyncio.Semaphore.release as called at the end of QueueService.release by
\* the generator of request r: the permit goes to the longest-blocked
\* acquire task, else back to the pool
SemRelease(r) ==
    IF semWaiters # <<>>
    THEN /\ semWaiters' = Tail(semWaiters)
         /\ acq' = [[acq EXCEPT ![r] = Forgotten(@)]
                       EXCEPT ![Head(semWaiters)] = "got"]
         /\ sem' = sem
    ELSE /\ sem' = sem + 1
         /\ acq' = [acq EXCEPT ![r] = Forgotten(@)]
         /\ UNCHANGED semWaiters

\* QueueService.release(request_id), the last step of the generator of r
Release(r) ==
    /\ active' = active \ {r}
    /\ SemRelease(r)
    /\ UNCHANGED <<waiting, order>>

\* ------------------------------------------------------------------------
\* The render cache (RenderCacheManager): keys, rows, eviction
\* ------------------------------------------------------------------------

\* ticks the clock can reach
MaxTime == 2

\* ttl_days, in ticks
TtlTicks == 1

\* max_size_bytes
MaxBytes == 2

\* settings.zoom_preview_max_side, in pixels
ZoomPreviewMaxSide == 2

\* str(page) and str(dpi) of the renders: page 0 at 150 dpi
PageStr == <<"0">>

DpiStr == <<"1", "5", "0">>

\* bbox_norm is None
NoBbox == <<>>

\* source ids, one of them a prefix of the other up to the separator
SourceIds == {<<"s">>, <<"s", ":", "v">>}

\* source ids that invalidate is called with and that no render was cached
\* under: one that differs from "s" by letter case only, and two that hold
\* the characters _ and %
ForeignIds == {<<"S">>, <<"_">>, <<"%">>}

\* source_version values, one of them holding the separator
Versions == {<<"v">>, <<"w">>, <<"v", ":", "w">>}

\* the renders that are asked for: the page of source "s" under both
\* versions, and the page of the other source and a crop of it
CacheArgs ==
    {[sid |-> <<"s">>, ver |-> <<"v">>, bbox |-> NoBbox],
     [sid |-> <<"s">>, ver |-> <<"w">>, bbox |-> NoBbox],
     [sid |-> <<"s", ":", "v">>, ver |-> <<"w">>, bbox |-> NoBbox],
     [sid |-> <<"s", ":", "v">>, ver |-> <<"w">>, bbox |-> <<"b", "'">>]}

\* tuple(round(v, 4) for v in bbox_norm)
Round4(b) == IF b = <<"b", "'">> THEN <<"b">> ELSE b

RECURSIVE Join(_)
\* ":".join(parts)
Join(parts) ==
    IF Len(parts) = 0 THEN <<>>
    ELSE IF Len(parts) = 1 THEN parts[1]
    ELSE parts[1] \o <<":">> \o Join(Tail(parts))

\* mutant of MakeCacheKey: source_version is left out of the key
MakeCacheKey_NoVersion(sid, ver, bbox) ==
    Join(<<sid, PageStr, DpiStr>>
         \o (IF bbox # NoBbox THEN <<Round4(bbox)>> ELSE <<>>))

\* RenderCacheManager._make_cache_key
MakeCacheKey(sid, ver, bbox) ==
    Join(<<sid, ver, PageStr, DpiStr>>
         \o (IF bbox # NoBbox THEN <<Round4(bbox)>> ELSE <<>>))

KeyOf(a) == MakeCacheKey(a.sid, a.ver, a.bbox)

CacheKeys == {KeyOf(a) : a \in CacheArgs}

\* SQLite LIKE folds the case of ASCII letters
Lower(c) == IF c = "S" THEN "s" ELSE IF c = "V" THEN "v" ELSE c

\* mutant of Like: the pattern is compared as a plain string
Like_Exact(p, t) == p = t

RECURSIVE Like(_, _)
\* SQLite: t LIKE p, with the wildcards % and _
Like(p, t) ==
    IF p = <<>> THEN t = <<>>
    ELSE IF Head(p) = "%"
         THEN Like(Tail(p), t) \/ (t # <<>> /\ Like(p, Tail(t)))
    ELSE /\ t # <<>>
         /\ (Head(p) = "_" \/ Lower(Head(p)) = Lower(Head(t)))
         /\ Like(Tail(p), Tail(t))

\* png_bytes of n bytes
Fill(n) == [i \in 1..n |-> "x"]

\* the payloads: two of one byte, and one of one byte more than
\* max_size_bytes
Payloads == {Fill(1), <<"y">>, Fill(MaxBytes + 1)}

\* what get returns for None, and what put returns
NoneVal == <<>>

TrueVal == <<"True">>

FalseVal == <<"False">>

\* an image of one row of pixels, a pixel being one character
Image(px) == [size |-> <<Len(px), 1>>, px |-> px]

\* _to_png_bytes(img): PNG keeps every pixel, one byte a pixel here
ToPngBytes(img) == img.px

\* Image.open(BytesIO(png_bytes)).convert("RGB")
OpenPng(bytes) == Image(bytes)

\* _crop_norm(img, bbox_norm): the corners are clamped to [0, 1]; the box
\* of the model is the whole page, its far corner past 1 by less than 1e-4
CropNorm(img, bbox) ==
    LET w == img.size[1]
        left == 0
        right == w
    IN [size |-> <<right - left, img.size[2]>>,
        px |-> SubSeq(img.px, left + 1, right)]

\* max(1, int(v / scale)) with scale = num / den
Shrink(v, num, den) ==
    IF (v * den) \div num >= 1 THEN (v * den) \div num ELSE 1

\* _scale_to_max_side(img, max_side): the image and the scale, 1.0 being
\* <<1, 1>> and max_dim / max_side being <<max_dim, max_side>>; of the
\* resampled row the leading pixels are kept
ScaleToMaxSide(img, maxSide) ==
    LET w == img.size[1]
        h == img.size[2]
        maxDim == IF w >= h THEN w ELSE h
    IN IF maxDim <= maxSide
       THEN [img |-> img, scale |-> <<1, 1>>]
       ELSE [img |-> [size |-> <<Shrink(w, maxDim, maxSide),
                                 Shrink(h, maxDim, maxSide)>>,
                      px |-> SubSeq(img.px, 1, Shrink(w, maxDim, maxSide))],
             scale |-> <<maxDim, maxSide>>]

\* the fields of a RenderedImage of kind "roi"
RenderedImage(bytes, img, scale, bbox) ==
    [png_bytes |-> bytes, width |-> img.size[1], height |-> img.size[2],
     scale_factor |-> scale, bbox_norm |-> bbox]

\* no RenderedImage was returned
NoImage == RenderedImage(<<>>, Image(<<>>), <<1, 1>>, <<>>)

\* build_roi on a hit of the ROI cache: the cached bytes, their size and
\* scale_factor = 1.0
CachedRoi(bytes, bbox) ==
    RenderedImage(bytes, OpenPng(bytes), <<1, 1>>, bbox)

\* build_roi on a miss: the crop of the page base, scaled to
\* zoom_preview_max_side
FreshRoi(base, bbox) ==
    LET s == ScaleToMaxSide(CropNorm(base, bbox), ZoomPreviewMaxSide)
    IN RenderedImage(ToPngBytes(s.img), s.img, s.scale, bbox)

\* no put is on record for the key
NoEntry ==
    [val |-> NoneVal, at |-> 0, sid |-> <<>>, ver |-> <<>>, bbox |-> <<>>]

\* the row put upserts; val is the content of its backing file
NewRow(v, t) == [val |-> v, created |-> t, access |-> t]

\* mutant of Expired: an entry expires as soon as its age reaches the TTL
Expired_AtTtl(row, t) == t - row.created >= TtlTicks

\* datetime.utcnow() - created_at > timedelta(days=ttl_days)
Expired(row, t) == t - row.created > TtlTicks

\* mutant of Touch: a hit leaves last_access_at as it is
Touch_Skip(row, t) == row

\* UPDATE cache_entries SET last_access_at = now
Touch(row, t) == [row EXCEPT !.access = t]

\* _remove_entry for the keys ks
Drop(rws, ks) == [k \in DOMAIN rws \ ks |-> rws[k]]

RECURSIVE SumSizes(_, _)
\* SUM(size_bytes) over the rows with keys ks
SumSizes(rws, ks) ==
    IF ks = {} THEN 0
    ELSE LET k == CHOOSE x \in ks : TRUE
         IN Len(rws[k].val) + SumSizes(rws, ks \ {k})

\* _get_total_size
TotalSize(rws) == SumSizes(rws, DOMAIN rws)

\* mutant of Oldest: a row with the greatest stamp is picked
Oldest_MostRecent(rws) ==
    {k \in DOMAIN rws : \A j \in DOMAIN rws : rws[k].access >= rws[j].access}

\* ORDER BY last_access_at ASC LIMIT 1: any row with the least stamp
Oldest(rws) ==
    {k \in DOMAIN rws : \A j \in DOMAIN rws : rws[k].access <= rws[j].access}

RECURSIVE Evict(_, _)
\* _ensure_space, the eviction loop: the tables it can leave
Evict(rws, needed) ==
    IF TotalSize(rws) + needed <= MaxBytes \/ DOMAIN rws = {}
    THEN {rws}
    ELSE UNION {Evict(Drop(rws, {k}), needed) : k \in Oldest(rws)}

\* _ensure_space(needed_bytes) at time t
EnsureSpace(rws, needed, t) ==
    Evict(Drop(rws, {k \in DOMAIN rws : Expired(rws[k], t)}), needed)

\* INSERT ... ON CONFLICT(cache_key) DO UPDATE into the table r
Upsert(r, K, v, t) ==
    [k \in DOMAIN r \cup {K} |-> IF k = K THEN NewRow(v, t) ELSE r[k]]

\* get: what it returns, the table it leaves, and whether it was a hit;
\* present is what file_path.exists() gives for the row's backing file (a
\* file the cache wrote may have been removed from the directory since).  A
\* file that is present can be read.
GetOutcome(on, rws, K, t, present) ==
    IF ~on \/ K \notin DOMAIN rws
    THEN [out |-> NoneVal, rows |-> rws, hit |-> FALSE]
    ELSE IF Expired(rws[K], t) \/ ~present
    THEN [out |-> NoneVal, rows |-> Drop(rws, {K}), hit |-> FALSE]
    ELSE [out |-> rws[K].val,
          rows |-> [rws EXCEPT ![K] = Touch(@, t)],
          hit |-> TRUE]

\* what is recorded of a call: file is what file_path.exists() gave, or
\* would have given, for the backing file
Result(op, a, out, hit, present) ==
    [op |-> op, args |-> a, out |-> out, hit |-> hit, file |-> present,
     removed |-> {}, img |-> NoImage]

\* the record of a put that found the table rws and upserted into e: the
\* keys of the rows that were removed on the way
Removing(res, rws, e) == [res EXCEPT !.removed = DOMAIN rws \ DOMAIN e]

\* what is recorded when something other than a cache call happens
NoCall == Result("none", <<>>, NoneVal, FALSE, TRUE)

\* the record of puts after a call took the table from rws to rws2
Forget(st, rws, rws2) ==
    [k \in CacheKeys |->
        IF k \in DOMAIN rws /\ k \notin DOMAIN rws2 THEN NoEntry ELSE st[k]]

\* the record of one successful put
PutRecord(a, v, t) ==
    [val |-> v, at |-> t, sid |-> a.sid, ver |-> a.ver, bbox |-> a.bbox]

\* the table without rows
EmptyRows == [k \in {} |-> NoEntry]

\* a cache directory the process finds with nothing in it but one entry
\* that an earlier process put there
LeftOver ==
    [k \in {MakeCacheKey(<<"s">>, <<"v">>, NoBbox)} |-> NewRow(Fill(1), 0)]

\* the cache after __init__, with the setting on and the table rws it found
CacheFresh(on, rws) ==
    /\ cacheOn = on
    /\ rows = rws
    /\ now = 0
    /\ cres = NoCall
    /\ stored = [k \in CacheKeys |-> NoEntry]
    /\ inval = {}

\* ------------------------------------------------------------------------
\* The deletion service (DeletionService): queue items, cascade steps
\* ------------------------------------------------------------------------

\* number of chats whose deletion is scheduled
MaxChats == 2

\* most storage paths a chat has
MaxPaths == 2

ChatIds == 1..MaxChats

\* the item stop() puts into the queue: None
StopSignal == 0

\* the ready callback that resumes the worker task; the other ready
\* callbacks are the tasks of schedule_deletion, named by their chat id
WorkerStep == 0

\* mutant of Tables: the chat row goes first
Tables_ChatsFirst == <<"chats", "chat_images", "messages">>

\* delete_chat_cascade: the tables in the order their rows are deleted
Tables == <<"chat_images", "messages", "chats">>

\* the steps of s that delete the rows of a table
RowSteps(s) == SelectSeq(s, LAMBDA x : x.s = "rows")

\* the steps of s that delete an object of the object store
ObjectSteps(s) == SelectSeq(s, LAMBDA x : x.s = "object")

\* one step of a cascade: what it works on and whether it went through
Step(s, what, ok) == [s |-> s, what |-> what, ok |-> ok]

\* asyncio.Queue.put_nowait: the item is appended and a worker blocked in
\* get() is woken, which makes its task ready
QueuePut(item) ==
    /\ dq' = Append(dq, item)
    /\ IF wpc = "blocked"
       THEN /\ wpc' = "woken"
            /\ ready' = Append(Tail(ready), WorkerStep)
       ELSE /\ wpc' = wpc
            /\ ready' = Tail(ready)

\* chat_id = await self._queue.get() returns the first item: None ends the
\* loop, a chat id starts its cascade
TakeItem ==
    /\ dq' = Tail(dq)
    /\ IF Head(dq) = StopSignal
       THEN /\ wpc' = "exit"
            /\ UNCHANGED <<cur, steps>>
       ELSE /\ wpc' = "list"
            /\ cur' = Head(dq)
            /\ steps' = <<>>

\* the worker task is suspended in queue.get(), or gone: other tasks of
\* the loop can run.  (The worker's first run is the first callback the
\* loop has after start(): nothing comes before it.)
Suspended == wpc \in {"blocked", "woken", "exit", "cancelled"}

\* the chat ids schedule_deletion was called with
Scheduled == (Range(ready) \ {WorkerStep}) \cup (Range(dq) \ {StopSignal})
             \cup processed \cup ({cur} \ {0})

\* the deletion service after start(): the worker task is created, not run
DeletionIdle ==
    /\ dq = <<>>
    /\ ready = <<WorkerStep>>
    /\ running = TRUE
    /\ wpc = "start"
    /\ cur = 0
    /\ todo = 0
    /\ steps = <<>>
    /\ processed = {}
    /\ spc = "idle"
    /\ late = FALSE
    /\ before = {}

\* ------------------------------------------------------------------------
\* The coverage check (SearchService.find_linked_blocks,
\* AgentService._apply_coverage_check)
\* ------------------------------------------------------------------------

\* max_add of _apply_coverage_check, scaled down
MaxAdd == 1

\* the block ids of one document and of the collector's answer
CovIds == {"A", "B", "C"}

\* the block maps: each block of the document with its linked_block_ids
LinkMaps ==
    UNION {[D -> SUBSET CovIds] : D \in {CovIds, CovIds \ {"C"}}}

\* find_linked_blocks(selected_ids, block_map): the links of the selected
\* blocks, and the blocks of the map with a link to a selected block
FindLinkedBlocks(sel, bmap) ==
    UNION {bmap[b] : b \in sel \cap DOMAIN bmap}
    \cup {b \in DOMAIN bmap : bmap[b] \cap sel # {}}

\* suggest_additional_blocks: the score of a block depends on its content
\* and the query; at most max_add blocks outside the given ids score enough
AdditionalBlocks(known, bmap) ==
    {X \in SUBSET (DOMAIN bmap \ known) : Cardinality(X) <= MaxAdd}

\* _apply_coverage_check: new_blocks, the selected blocks with those of the
\* linked and the additional ids that the block map holds
CoverageResult(sel, bmap, extra) ==
    sel \cup ((FindLinkedBlocks(sel, bmap) \cup extra) \cap DOMAIN bmap)

\* no collector response is at hand
CoverageIdle ==
    /\ linkMap = [b \in {} |-> {}]
    /\ selectedIds = {}
    /\ flashSel = {}
    /\ covered = FALSE

\* ------------------------------------------------------------------------
\* Block ids, image keys and _build_materials
\* ------------------------------------------------------------------------

AlphaNum ==
    {"A", "B", "C", "D", "E", "F", "G", "H", "I", "J", "K", "L", "M",
     "N", "O", "P", "Q", "R", "S", "T", "U", "V", "W", "X", "Y", "Z",
     "0", "1", "2", "3", "4", "5", "6", "7", "8", "9"}

\* re.match(r'^[A-Z0-9]{4}-[A-Z0-9]{4}-[A-Z0-9]{3}$', block_id); in Python a
\* "$" also matches before one trailing newline
MatchesBlockId(b) ==
    /\ \/ Len(b) = 13
       \/ Len(b) = 14 /\ b[14] = "\n"
    /\ \A i \in 1..13 :
          IF i \in {5, 10} THEN b[i] = "-" ELSE b[i] \in AlphaNum

\* the id of the IMAGE block of the documents, in the XXXX-XXXX-XXX format
DocBlock == <<"A", "A", "A", "A", "-", "B", "B", "B", "B", "-", "0", "0", "1">>

\* an id a model made up
BadId == <<"i", "m", "g", "-", "1">>

\* the IMAGE blocks of the documents, in document order
DocOrder == <<DocBlock>>

DocIds == {DocOrder[i] : i \in 1..Len(DocOrder)}

AllIds == DocIds \cup {BadId}

\* bbox_norm of the four automatic quadrants, in the order they are rendered
Quadrants == <<"Q1", "Q2", "Q3", "Q4">>

\* bbox_norm values a ROI request may carry
Boxes == {"B1"}

\* (block_id, kind, bbox_norm) of every image the documents can give
AllKeys ==
    {<<b, "overview", "none">> : b \in DocIds}
    \cup {<<b, "quadrant", Quadrants[i]>> : b \in DocIds, i \in 1..4}
    \cup {<<b, "roi", x>> : b \in DocIds, x \in Boxes}

SeqsUpTo(S, n) == UNION {[1..k -> S] : k \in 0..n}

\* the lists of follow-up requests one answer may carry: none, or one
Batches(S) == {<<>>} \cup {<<x>> : x \in S}

Take(s, n) == IF Len(s) <= n THEN s ELSE SubSeq(s, 1, n)

\* EvidenceService.build_preview_and_quadrants: the overview, and the four
\* quadrants when the scale factor exceeds auto_quadrants_threshold
Renders(b, large) ==
    <<<<b, "overview", "none">>>>
    \o (IF large THEN [i \in 1..4 |-> <<b, "quadrant", Quadrants[i]>>]
        ELSE <<>>)

RECURSIVE ImageCandidates(_, _, _)
\* _build_materials, loop over requested_images: the renders of every
\* request with a well-formed id and a PDF crop (okIds), in request order
ImageCandidates(reqs, okIds, large) ==
    IF reqs = <<>> THEN <<>>
    ELSE (IF MatchesBlockId(Head(reqs)) /\ Head(reqs) \in okIds
          THEN Renders(Head(reqs), large)
          ELSE <<>>)
         \o ImageCandidates(Tail(reqs), okIds, large)

RECURSIVE RoiCandidates(_, _)
\* _build_materials, loop over requested_rois: one render per request with
\* a well-formed id and a PDF crop
RoiCandidates(rois, okIds) ==
    IF rois = <<>> THEN <<>>
    ELSE (IF MatchesBlockId(Head(rois)[1]) /\ Head(rois)[1] \in okIds
          THEN <<<<Head(rois)[1], "roi", Head(rois)[2]>>>>
          ELSE <<>>)
         \o RoiCandidates(Tail(rois), okIds)

RECURSIVE UploadRenders(_, _, _)
\* upload_render over the renders in order: a key already seen gives
\* nothing; a new key is marked seen and gives an image unless the upload to
\* the file API fails (failKinds)
UploadRenders(cands, seen, failKinds) ==
    IF cands = <<>> THEN <<>>
    ELSE IF Head(cands) \in seen
         THEN UploadRenders(Tail(cands), seen, failKinds)
         ELSE (IF Head(cands)[2] \in failKinds THEN <<>> ELSE <<Head(cands)>>)
              \o UploadRenders(Tail(cands), seen \cup {Head(cands)}, failKinds)

\* mutant of BuildImages: the keys of the existing images are not marked
\* as seen
BuildImages_ForgetsExisting(existing, imgReqs, roiReqs, okIds, large, failKinds) ==
    existing
    \o UploadRenders(ImageCandidates(imgReqs, okIds, large)
                         \o RoiCandidates(roiReqs, okIds),
                     {}, failKinds)

\* _build_materials: the images of the materials it returns
BuildImages(existing, imgReqs, roiReqs, okIds, large, failKinds) ==
    existing
    \o UploadRenders(ImageCandidates(imgReqs, okIds, large)
                         \o RoiCandidates(roiReqs, okIds),
                     Range(existing), failKinds)

\* _build_materials: the IMAGE blocks of the materials it returns
BuildBlocks(existingBlocks, selected, imgReqs, bmap) ==
    existingBlocks \cup selected \cup (Range(imgReqs) \cap bmap)

RECURSIVE IdsInOrder(_, _)
\* the ids of S in document order, from the i-th on
IdsInOrder(S, i) ==
    IF i > Len(DocOrder) THEN <<>>
    ELSE (IF DocOrder[i] \in S THEN <<DocOrder[i]>> ELSE <<>>)
         \o IdsInOrder(S, i + 1)

\* _suggest_followup_images(materials_json, limit=3)
SuggestFollowupImages(blocks, imgs) ==
    Take(IdsInOrder(blocks \ {imgs[i][1] : i \in 1..Len(imgs)}, 1), 3)

\* _create_image_events: one image_ready per image of the materials
ImageEvents(imgs) ==
    [i \in 1..Len(imgs) |-> [k |-> "image_ready", key |-> imgs[i]]]

\* an event that carries no image key
Ev(k) == [k |-> k, key |-> <<>>]

\* ------------------------------------------------------------------------
\* The streamed answer: raw JSON text and the text shown to the user
\* ------------------------------------------------------------------------

\* The characters of a raw answer.  "K" stands for the text that the pattern
\* "answer_markdown"\s*:\s*" matches (with the JSON before it); texts hold it
\* at their first position or not at all.
BodyChars == {"a", "n", "\\", "\""}

TokTexts ==
    {s \in SeqsUpTo(BodyChars \cup {"K"}, MaxJsonLen) :
        \A i \in 2..Len(s) : s[i] # "K"}

\* a complete answer, and one cut off inside the string
PipeTexts == {<<"K", "a", "\"">>, <<"K", "a">>}

\* extract_answer_markdown: the character an escape sequence stands for
Unescape(c) ==
    IF c = "n" THEN "\n"
    ELSE IF c = "t" THEN "\t"
    ELSE c

RECURSIVE WalkString(_, _)
\* extract_answer_markdown: the walk from index i to the first unescaped
\* quote or to the end of the partial text
WalkString(s, i) ==
    IF i > Len(s) THEN <<>>
    ELSE IF s[i] = "\\" /\ i + 1 <= Len(s)
         THEN <<Unescape(s[i + 1])>> \o WalkString(s, i + 2)
    ELSE IF s[i] = "\"" THEN <<>>
    ELSE <<s[i]>> \o WalkString(s, i + 1)

\* re.search(pattern, partial_json).end(), 0 when there is no match
MatchEnd(s) == IndexOf(s, "K")

\* extract_answer_markdown(partial_json)
ExtractAnswerMarkdown(s) ==
    IF MatchEnd(s) = 0 THEN <<>> ELSE WalkString(s, MatchEnd(s) + 1)

RECURSIVE JsonStringEnd(_, _)
\* json.loads on the string that starts at index i: the index of its closing
\* quote, 0 when the string is cut off or holds an escape JSON does not have
JsonStringEnd(s, i) ==
    IF i > Len(s) THEN 0
    ELSE IF s[i] = "\"" THEN i
    ELSE IF s[i] = "\\"
         THEN IF i + 1 <= Len(s) /\ s[i + 1] \in {"n", "\\", "\""}
              THEN JsonStringEnd(s, i + 2)
              ELSE 0
    ELSE JsonStringEnd(s, i + 1)

\* parse_json and AnswerResponse.model_validate accept the raw text
ParsesAsAnswer(s) ==
    /\ Len(s) >= 2
    /\ s[1] = "K"
    /\ JsonStringEnd(s, 2) = Len(s)

\* token_delta: what display_text has beyond the length of
\* prev_display_text
TokenDelta(prev, display) ==
    IF Len(display) > Len(prev)
    THEN SubSeq(display, Len(prev) + 1, Len(display))
    ELSE <<>>

\* the character a JSON escape sequence stands for
JsonUnescape(c) == IF c = "n" THEN "\n" ELSE c

RECURSIVE JsonString(_, _)
\* json.loads on the string that starts at index i of a text that parses
JsonString(s, i) ==
    IF i > Len(s) \/ s[i] = "\"" THEN <<>>
    ELSE IF s[i] = "\\"
         THEN <<JsonUnescape(s[i + 1])>> \o JsonString(s, i + 2)
    ELSE <<s[i]>> \o JsonString(s, i + 1)

\* answer_markdown of AnswerResponse.model_validate(parse_json(raw_text))
AnswerMarkdown(s) == JsonString(s, 2)

\* answer_markdown of the answers the ROI requester may give
RoiTexts == {<<"a">>, <<"r">>}

\* mutant of Accumulate: the buffer is overwritten by the chunk
Accumulate_Overwrite(n, m) == m

\* accumulated_text += content, as lengths of the delivered part of raw
Accumulate(n, m) == n + m

\* ------------------------------------------------------------------------
\* The quality gate and the answerer loop
\* ------------------------------------------------------------------------

\* mutant of ShouldForceRoiFollowup: the intent is not looked at
ShouldForceRoiFollowup_AnyIntent(vis, ansImages, ansRois, roiCited) ==
    /\ ansImages = <<>> /\ ansRois = <<>>
    /\ ~roiCited

\* _should_force_roi_followup(answer, analysis_intent)
ShouldForceRoiFollowup(vis, ansImages, ansRois, roiCited) ==
    /\ vis
    /\ ansImages = <<>> /\ ansRois = <<>>
    /\ ~roiCited

RECURSIVE ValidRois(_)
\* the simple profile keeps the requester's ROIs with a well-formed block id
ValidRois(rois) ==
    IF rois = <<>> THEN <<>>
    ELSE (IF MatchesBlockId(Head(rois)[1]) THEN <<Head(rois)>> ELSE <<>>)
         \o ValidRois(Tail(rois))

\* google_files of the answerer loop is empty: the simple profile starts it
\* from google_file_uris and merges the files of every build into it, the
\* other profiles take the files the last build returned
NoGoogleFiles(prof, attach, imgs) ==
    IF prof = "simple" THEN ~attach /\ imgs = <<>> ELSE imgs = <<>>

\* the pipeline of Obs before process_message is called
PipeIdle ==
    /\ ppc = "idle"
    /\ outq = <<>>
    /\ profile = "none"
    /\ visual = FALSE
    /\ hasAttach = FALSE
    /\ blockMap = {}
    /\ mat = FALSE
    /\ matBlocks = {}
    /\ images = <<>>
    /\ iteration = 0
    /\ fuImages = <<>>
    /\ fuRois = <<>>
    /\ persisted = 0
    /\ imgEvents = [k \in AllKeys |-> 0]
    /\ prod = NoProd
    /\ raw = <<>>
    /\ fed = 0
    /\ tokAcc = <<>>
    /\ tokPass = 0
    /\ tokSum = <<>>
    /\ finalText = <<>>
    /\ seenKeys = {}
    /\ calls = {}
    /\ gres = NoGate
    /\ allBad = FALSE

\* ------------------------------------------------------------------------
\* Init: the service after construction and start()
\* ------------------------------------------------------------------------

\* the queue service and the pipeline of Obs before any request
ServiceIdle ==
    /\ waiting = {}
    /\ order = <<>>
    /\ active = {}
    /\ sem = MaxConcurrent
    /\ semWaiters = <<>>
    /\ pc = [r \in Ids |-> "new"]
    /\ acq = [r \in Ids |-> "none"]
    /\ cnt = [k \in Counted |-> 0]
    /\ last = "none"
    /\ how = "open"
    /\ PipeIdle
    /\ texts = {}
    /\ DeletionIdle
    /\ ids = {}

Init ==
    /\ ServiceIdle
    /\ CoverageIdle
    /\ CacheFresh(TRUE, EmptyRows)

\* ------------------------------------------------------------------------
\* execute_with_queue, one action per run between suspension points
\* ------------------------------------------------------------------------

\* enqueue raises: the router's event_generator turns it into an error event
SubmitRejected(r) ==
    /\ pc[r] = "new"
    /\ FreshId(r)
    /\ QueueFull(waiting)
    /\ pc' = [pc EXCEPT ![r] = "rejected"]
    /\ Ends(r, "queue_full")
    /\ Emit(r, "error")
    /\ UNCHANGED <<qvars, acq, pvars>>

\* enqueue succeeds; the generator runs to its first suspension point
SubmitEnqueued(r) ==
    /\ pc[r] = "new"
    /\ FreshId(r)
    /\ ~QueueFull(waiting)
    /\ waiting' = waiting \cup {r}
    /\ order' = Append(order, r)
    /\ IF Position(r, waiting', order') > 0
       THEN /\ Emit(r, "queue_position")
            /\ pc' = [pc EXCEPT ![r] = "yqpos0"]
            /\ acq' = acq
       ELSE /\ pc' = [pc EXCEPT ![r] = "wait"]
            /\ acq' = [acq EXCEPT ![r] = "sched"]
            /\ UNCHANGED <<cnt, last>>
    /\ UNCHANGED <<active, sem, semWaiters, pvars, how>>

\* resumed after the initial queue_position: create the acquire task, wait
StartWait(r) ==
    /\ pc[r] = "yqpos0"
    /\ pc' = [pc EXCEPT ![r] = "wait"]
    /\ acq' = [acq EXCEPT ![r] = "sched"]
    /\ UNCHANGED <<qvars, pvars, cnt, last, how>>

\* the acquire task reaches semaphore.acquire()
AcqBegin(r) ==
    /\ acq[r] = "sched"
    /\ IF sem > 0 /\ semWaiters = <<>>
       THEN /\ sem' = sem - 1
            /\ acq' = [acq EXCEPT ![r] = "got"]
            /\ UNCHANGED semWaiters
       ELSE /\ semWaiters' = Append(semWaiters, r)
            /\ acq' = [acq EXCEPT ![r] = "blocked"]
            /\ UNCHANGED sem
    /\ UNCHANGED <<waiting, order, active, pc, pvars, cnt, last, how>>

\* mutant of AcqTimeout: the timed-out request is not removed
AcqTimeout_KeepsRequest(r) ==
    /\ acq[r] = "blocked"
    /\ semWaiters' = SeqWithout(semWaiters, r)
    /\ acq' = [acq EXCEPT ![r] = IF Ended(r) THEN "none" ELSE "false"]
    /\ UNCHANGED <<waiting, order, active, sem, pc, pvars, cnt, last, how>>

\* wait_for times out: _remove_request, acquire returns False
AcqTimeout(r) ==
    /\ acq[r] = "blocked"
    /\ semWaiters' = SeqWithout(semWaiters, r)
    /\ waiting' = waiting \ {r}
    /\ active' = active \ {r}
    /\ order' = SeqWithout(order, r)
    /\ acq' = [acq EXCEPT ![r] = IF Ended(r) THEN "none" ELSE "false"]
    /\ UNCHANGED <<sem, pc, pvars, cnt, last, how>>

\* mutant of AcqMove: the request stays in the ordered list
AcqMove_KeepsOrder(r) ==
    /\ acq[r] = "got"
    /\ IF r \in waiting
       THEN /\ waiting' = waiting \ {r}
            /\ active' = active \cup {r}
            /\ order' = order
       ELSE UNCHANGED <<waiting, active, order>>
    /\ acq' = [acq EXCEPT ![r] = IF Ended(r) THEN "none" ELSE "true"]
    /\ UNCHANGED <<sem, semWaiters, pc, pvars, cnt, last, how>>

\* the acquire task holds a permit: move the request from waiting to active
AcqMove(r) ==
    /\ acq[r] = "got"
    /\ IF r \in waiting
       THEN /\ waiting' = waiting \ {r}
            /\ active' = active \cup {r}
            /\ order' = SeqWithout(order, r)
       ELSE UNCHANGED <<waiting, active, order>>
    /\ acq' = [acq EXCEPT ![r] = IF Ended(r) THEN "none" ELSE "true"]
    /\ UNCHANGED <<sem, semWaiters, pc, pvars, cnt, last, how>>

\* the 2-second wait_for expires while the acquire task is still pending
Tick(r) ==
    /\ pc[r] = "wait"
    /\ acq[r] \in {"sched", "blocked", "got"}
    /\ UNCHANGED pvars
    /\ IF Position(r, waiting, order) > 0
       THEN /\ Emit(r, "queue_position")
            /\ pc' = [pc EXCEPT ![r] = "yqpos"]
       ELSE UNCHANGED <<pc, cnt, last>>
    /\ UNCHANGED <<qvars, acq, how>>

\* resumed after a periodic queue_position
ResumeWait(r) ==
    /\ pc[r] = "yqpos"
    /\ pc' = [pc EXCEPT ![r] = "wait"]
    /\ UNCHANGED <<qvars, acq, pvars, cnt, last, how>>

\* acquire returned True: processing_started
Admitted(r) ==
    /\ pc[r] = "wait"
    /\ acq[r] = "true"
    /\ Emit(r, "processing_started")
    /\ pc' = [pc EXCEPT ![r] = "ystart"]
    /\ UNCHANGED <<qvars, acq, pvars, how>>

\* acquire returned False: the timeout error event
TimedOut(r) ==
    /\ pc[r] = "wait"
    /\ acq[r] = "false"
    /\ Emit(r, "error")
    /\ pc' = [pc EXCEPT ![r] = "yerr"]
    /\ UNCHANGED <<qvars, acq, pvars, how>>

\* mutant of TimedOutReturn: the return after the timeout error is missing,
\* the run goes on to processing_started
TimedOutReturn_NoReturn(r) ==
    /\ pc[r] = "yerr"
    /\ Emit(r, "processing_started")
    /\ pc' = [pc EXCEPT ![r] = "ystart"]
    /\ UNCHANGED <<qvars, acq, pvars, how>>

\* resumed after the timeout error: return, and the finally block releases
TimedOutReturn(r) ==
    /\ pc[r] = "yerr"
    /\ Release(r)
    /\ pc' = [pc EXCEPT ![r] = "done"]
    /\ Ends(r, "timeout")
    /\ UNCHANGED <<pvars, cnt, last>>

\* resumed after processing_started: the producer is started
StartProducer(r) ==
    /\ pc[r] = "ystart"
    /\ pc' = [pc EXCEPT ![r] = "run"]
    /\ ppc' = IF r = Obs THEN "begin" ELSE ppc
    /\ UNCHANGED <<qvars, acq, cnt, last, how>>
    /\ UNCHANGED <<outq, profile, visual, hasAttach, blockMap, mat, matBlocks,
                   images, iteration, fuImages, fuRois, persisted, imgEvents, prod,
                   texts, dvars, kvars, cvars, bvars, ids, raw, fed, tokAcc, tokPass, tvars>>

\* the producer of a request other than Obs yields its terminal event
ProdTerminal(r) ==
    /\ r # Obs
    /\ pc[r] = "run"
    /\ \E k \in {"completed", "error"} :
          /\ Emit(r, k)
          /\ Ends(r, k)
    /\ pc' = [pc EXCEPT ![r] = "ylast"]
    /\ UNCHANGED <<qvars, acq, pvars>>

\* the producer is exhausted: the finally block releases
ProdReturn(r) ==
    /\ pc[r] \in {"ylast", "yperr"}
    /\ Release(r)
    /\ pc' = [pc EXCEPT ![r] = "done"]
    /\ DropFrame(r)
    /\ UNCHANGED <<cnt, last, how>>

\* the producer raises: the except block yields an error event
ProdRaise(r) ==
    /\ r # Obs
    /\ pc[r] = "run"
    /\ Emit(r, "error")
    /\ pc' = [pc EXCEPT ![r] = "yperr"]
    /\ Ends(r, "error")
    /\ UNCHANGED <<qvars, acq, pvars>>

\* the consumer closes the stream while the generator is suspended:
\* only the finally block runs
Cancel(r) ==
    /\ pc[r] \in {"yqpos0", "wait", "yqpos", "yerr", "ystart", "run", "ylast", "yperr"}
    /\ Release(r)
    /\ pc' = [pc EXCEPT ![r] = "done"]
    /\ Ends(r, "closed")
    /\ DropFrame(r)
    /\ UNCHANGED <<cnt, last>>

\* ------------------------------------------------------------------------
\* process_message of Obs, one action per run between suspension points
\* (a run that makes no step visible outside may be split in two)
\* ------------------------------------------------------------------------

\* mutant of Forward: llm_thinking events stay with the queue
Forward_DropsThinking(e) ==
    IF e.k = "llm_thinking"
    THEN UNCHANGED <<cnt, last, imgEvents>>
    ELSE /\ cnt' = IF e.k \in Counted THEN [cnt EXCEPT ![e.k] = Bump(@)]
                                        ELSE cnt
         /\ last' = e.k
         /\ imgEvents' = IF e.k = "image_ready"
                         THEN [imgEvents EXCEPT ![e.key] = Bump(@)]
                         ELSE imgEvents

\* execute_with_queue, async for event in processor(): yield event.  The
\* event goes out on the stream of Obs
Forward(e) ==
    /\ cnt' = IF e.k \in Counted THEN [cnt EXCEPT ![e.k] = Bump(@)] ELSE cnt
    /\ last' = e.k
    /\ imgEvents' = IF e.k = "image_ready"
                    THEN [imgEvents EXCEPT ![e.key] = Bump(@)]
                    ELSE imgEvents

\* process_message yields the event e and execute_with_queue passes it on
EmitEv(e) ==
    /\ prod' = [n |-> IF e.k \in Counted
                      THEN [prod.n EXCEPT ![e.k] = Bump(@)]
                      ELSE prod.n,
                last |-> e.k]
    /\ Forward(e)

\* the run yields the events evs one after the other: the first one now
YieldAll(evs) ==
    IF evs = <<>>
    THEN /\ outq' = <<>>
         /\ UNCHANGED <<cnt, last, imgEvents, prod>>
    ELSE /\ EmitEv(Head(evs))
         /\ outq' = Tail(evs)

\* the generator of Obs is resumed from its last yield
Resumed(at) ==
    /\ pc[Obs] = "run"
    /\ outq = <<>>
    /\ ppc \in at

\* mutant of RaiseError: the except block stores what there is of the answer
RaiseError_SavesPartial ==
    /\ EmitEv(Ev("error"))
    /\ outq' = <<>>
    /\ pc' = [pc EXCEPT ![Obs] = "ylast"]
    /\ how' = "error"
    /\ persisted' = persisted + 1
    /\ UNCHANGED <<qvars, acq, ppc, profile, visual, hasAttach, blockMap, mat,
                   matBlocks, images, iteration, fuImages, fuRois,
                   texts, dvars, kvars, cvars, bvars, ids, raw, fed, tokAcc, tokPass, tvars>>

\* process_message, except Exception: the error event
RaiseError ==
    /\ EmitEv(Ev("error"))
    /\ outq' = <<>>
    /\ pc' = [pc EXCEPT ![Obs] = "ylast"]
    /\ how' = "error"
    /\ UNCHANGED <<qvars, acq, ppc, profile, visual, hasAttach, blockMap, mat,
                   matBlocks, images, iteration, fuImages, fuRois, persisted,
                   texts, dvars, kvars, cvars, bvars, ids, raw, fed, tokAcc, tokPass, tvars>>

\* the ROI requester raises: the same except block, after the gate called it
RequesterRaises(g) ==
    /\ EmitEv(Ev("error"))
    /\ outq' = <<>>
    /\ pc' = [pc EXCEPT ![Obs] = "ylast"]
    /\ how' = "error"
    /\ gres' = g
    /\ UNCHANGED <<qvars, acq, ppc, profile, visual, hasAttach, blockMap, mat,
                   matBlocks, images, iteration, fuImages, fuRois, persisted,
                   texts, dvars, kvars, cvars, seenKeys, calls, allBad, ids, raw, fed,
                   tokAcc, tokPass, tvars>>

\* requires_visual_detail of the empty intent AnalysisIntent(), the result
\* of a router that failed or has no prompt
EmptyIntent == FALSE

\* the results the intent router can give: requires_visual_detail of the
\* intent it parsed, or the empty intent
IntentOutcomes ==
    {[ok |-> TRUE, vis |-> v] : v \in BOOLEAN}
    \cup {[ok |-> FALSE, vis |-> EmptyIntent]}

\* the sizes of the next text chunk of a stream that delivered n characters
StreamChunks(text, n) == 1..(Len(text) - n)

\* the next yielded event continues the pending ones
Yield ==
    /\ pc[Obs] = "run"
    /\ outq # <<>>
    /\ EmitEv(Head(outq))
    /\ outq' = Tail(outq)
    /\ UNCHANGED <<qvars, pc, acq, how, ppc, profile, visual, hasAttach,
                   blockMap, mat, matBlocks, images, iteration, fuImages,
                   fuRois, persisted, texts, dvars, kvars, cvars, bvars, ids, raw, fed, tokAcc, tokPass, tvars>>

\* process_message up to its first yield: compare mode, or the context phase
Begin ==
    /\ Resumed({"begin"})
    /\ \/ RaiseError
       \/ \E prof \in {"simple", "complex", "compare"},
             ctx \in {"docs", "client", "none"},
             attach \in BOOLEAN,
             bmap \in SUBSET DocIds :
            /\ prof = "compare" => ctx = "docs"
            /\ ctx # "docs" => bmap = {}
            /\ prof # "simple" => ~attach
            /\ profile' = prof
            /\ hasAttach' = attach
            /\ blockMap' = bmap
            /\ IF prof = "compare"
               THEN /\ ppc' = "mode"
                    /\ YieldAll(<<>>)
               ELSE IF ctx = "docs"
               THEN /\ ppc' = "ctx_docs"
                    /\ YieldAll(<<Ev("phase_started")>>)
               ELSE IF ctx = "client"
               THEN /\ ppc' = "ctx_search"
                    /\ YieldAll(<<Ev("phase_started")>>)
               ELSE /\ ppc' = "after_ctx"
                    /\ YieldAll(<<>>)
            /\ UNCHANGED <<qvars, pc, acq, how, visual, mat, matBlocks,
                           images, iteration, fuImages, fuRois, persisted,
                           texts, dvars, kvars, cvars, bvars, ids, raw, fed, tokAcc, tokPass, tvars>>

\* the documents are loaded, or the search is done
ContextLoaded ==
    /\ Resumed({"ctx_docs", "ctx_search"})
    /\ \/ RaiseError
       \/ /\ ppc' = "after_ctx"
          /\ IF ppc = "ctx_docs"
             THEN YieldAll(<<Ev("phase_progress")>>)
             ELSE YieldAll(<<Ev("phase_progress"), Ev("phase_started"),
                             Ev("phase_progress")>>)
          /\ UNCHANGED <<qvars, pc, acq, how, profile, visual, hasAttach,
                         blockMap, mat, matBlocks, images, iteration,
                         fuImages, fuRois, persisted, texts, dvars, kvars, cvars, bvars, ids, raw, fed,
                         tokAcc, tokPass, tvars>>

\* tree_files, when given, are announced; else the llm phase is
AfterContext ==
    /\ Resumed({"after_ctx"})
    /\ \E tree \in BOOLEAN :
          /\ ppc' = IF tree THEN "tree" ELSE "mode"
          /\ YieldAll(<<Ev("phase_started")>>)
    /\ UNCHANGED <<qvars, pc, acq, how, profile, visual, hasAttach,
                   blockMap, mat, matBlocks, images, iteration, fuImages,
                   fuRois, persisted, texts, dvars, kvars, cvars, bvars, ids, raw, fed, tokAcc, tokPass, tvars>>

\* the tree files are loaded; the llm phase is announced
TreeLoaded ==
    /\ Resumed({"tree"})
    /\ ppc' = "mode"
    /\ YieldAll(<<Ev("phase_progress"), Ev("phase_started")>>)
    /\ UNCHANGED <<qvars, pc, acq, how, profile, visual, hasAttach,
                   blockMap, mat, matBlocks, images, iteration, fuImages,
                   fuRois, persisted, texts, dvars, kvars, cvars, bvars, ids, raw, fed, tokAcc, tokPass, tvars>>

\* _process_simple_mode up to the answerer loop; the other profiles up to
\* their flash_stage event.  The intent router gives requires_visual_detail.
ModeStart ==
    /\ Resumed({"mode"})
    /\ \/ RaiseError
       \/ \E intent \in IntentOutcomes, hasBlocks \in BOOLEAN :
            /\ blockMap # {} => hasBlocks
            /\ visual' = intent.vis
            /\ gres' = [NoGate EXCEPT !.unrouted = ~intent.ok]
            /\ IF profile = "simple"
               THEN /\ mat' = hasBlocks
                    /\ matBlocks' = blockMap
                    /\ ppc' = "loophead"
                    /\ YieldAll(<<>>)
               ELSE /\ UNCHANGED <<mat, matBlocks>>
                    /\ ppc' = "flash"
                    /\ YieldAll(<<Ev("phase_started")>>)
            /\ UNCHANGED <<qvars, pc, acq, how, profile, hasAttach, blockMap,
                           images, iteration, fuImages, fuRois, persisted,
                           texts, dvars, kvars, cvars, seenKeys, calls,
                           allBad, ids, raw, fed, tokAcc, tokPass, tvars>>

\* the flash collectors select blocks and request images and ROIs
FlashCollected ==
    /\ Resumed({"flash"})
    /\ \/ RaiseError
       \/ \E sel \in SUBSET blockMap,
             imgs \in Batches(ids),
             rois \in Batches(ids \X Boxes) :
            /\ matBlocks' = sel
            /\ fuImages' = imgs
            /\ fuRois' = rois
            /\ ppc' = "facts"
            /\ YieldAll(<<Ev("phase_progress")>>)
            /\ UNCHANGED <<qvars, pc, acq, how, profile, visual, hasAttach,
                           blockMap, mat, images, iteration, persisted,
                           texts, dvars, kvars, cvars, bvars, ids, raw, fed, tokAcc, tokPass, tvars>>

\* the document facts are extracted; the tool_execution phase is announced
FactsExtracted ==
    /\ Resumed({"facts"})
    /\ \/ RaiseError
       \/ /\ ppc' = "build0"
          /\ YieldAll(<<Ev("phase_started")>>)
          /\ UNCHANGED <<qvars, pc, acq, how, profile, visual, hasAttach,
                         blockMap, mat, matBlocks, images, iteration,
                         fuImages, fuRois, persisted, texts, dvars, kvars, cvars, bvars, ids, raw, fed,
                         tokAcc, tokPass, tvars>>

\* _build_materials on the pending requests, then _create_image_events on
\* the materials it returned and the events after.  A render that raises
\* ends the whole build.
Build(next, after) ==
    \/ RaiseError
    \/ \E okIds \in SUBSET DocIds, large \in BOOLEAN,
          failKinds \in SUBSET {"overview", "quadrant", "roi"} :
         /\ images' = BuildImages(images, fuImages, fuRois, okIds, large,
                                  failKinds)
         /\ matBlocks' = BuildBlocks(matBlocks, {}, fuImages, blockMap)
         /\ mat' = TRUE
         /\ fuImages' = <<>>
         /\ fuRois' = <<>>
         /\ ppc' = next
         /\ YieldAll(ImageEvents(images') \o after)
         /\ gres' = NextPass
         /\ UNCHANGED <<qvars, pc, acq, how, profile, visual, hasAttach,
                        blockMap, iteration, persisted, texts, dvars, kvars, cvars,
                        seenKeys, calls, allBad, ids, raw, fed,
                        tokAcc, tokPass, tvars>>

\* the first materials of the complex and compare profiles; pro_stage
InitialBuild ==
    /\ Resumed({"build0"})
    /\ Build("loophead", <<Ev("phase_started")>>)

\* the materials are rebuilt for the follow-up requests of the last answer
FollowupBuild ==
    /\ Resumed({"tools"})
    /\ Build("built", <<>>)

\* after the follow-up images: the next pass, or (simple profile, no file
\* for the model at all) the answer at hand becomes final
AfterFollowup ==
    /\ Resumed({"built"})
    /\ ppc' = IF profile = "simple" /\ NoGoogleFiles(profile, hasAttach, images)
              THEN "final"
              ELSE "loophead"
    /\ UNCHANGED <<qvars, pc, acq, evars, outq, profile, visual, hasAttach,
                   blockMap, mat, matBlocks, images, iteration, fuImages,
                   fuRois, persisted, imgEvents, prod, texts, dvars, kvars, cvars, bvars, ids, raw, fed,
                   tokAcc, tokPass, tvars>>

\* mutant of LoopHead: one more pass is allowed
LoopHead_SixthPass ==
    /\ Resumed({"loophead"})
    /\ IF iteration < MaxIterations + 1
       THEN \/ /\ profile # "complex"
               /\ RaiseError
            \/ /\ iteration' = iteration + 1
               /\ IF profile = "complex"
                  THEN /\ raw' \in texts
                       /\ ppc' = "stream"
                  ELSE /\ raw' = raw
                       /\ ppc' = "gate"
               /\ fed' = 0
               /\ gres' = NextPass
               /\ allBad' = FALSE
               /\ UNCHANGED <<qvars, pc, acq, evars, outq, profile, visual,
                              hasAttach, blockMap, mat, matBlocks, images,
                              fuImages, fuRois, persisted, imgEvents, prod, texts, dvars, kvars,
                              cvars, seenKeys, calls, ids, tokAcc, tokPass, tvars>>
       ELSE RaiseError

\* while iteration < max_iterations: the next answerer pass (run_answer, or
\* the start of the token stream); after the loop final_answer is None
LoopHead ==
    /\ Resumed({"loophead"})
    /\ IF iteration < MaxIterations
       THEN \/ /\ profile # "complex"
               /\ RaiseError
            \/ /\ iteration' = iteration + 1
               /\ IF profile = "complex"
                  THEN /\ raw' \in texts
                       /\ ppc' = "stream"
                  ELSE /\ raw' = raw
                       /\ ppc' = "gate"
               /\ fed' = 0
               /\ gres' = NextPass
               /\ allBad' = FALSE
               /\ UNCHANGED <<qvars, pc, acq, evars, outq, profile, visual,
                              hasAttach, blockMap, mat, matBlocks, images,
                              fuImages, fuRois, persisted, imgEvents, prod, texts, dvars, kvars,
                              cvars, seenKeys, calls, ids, tokAcc, tokPass, tvars>>
       ELSE RaiseError

\* a text chunk arrives: the visible text is extracted from the accumulated
\* raw text and goes out as llm_token
StreamText ==
    /\ Resumed({"stream"})
    /\ \E m \in StreamChunks(raw, fed) :
          /\ fed' = Accumulate(fed, m)
          /\ tokAcc' = ExtractAnswerMarkdown(SubSeq(raw, 1, fed'))
    /\ tokPass' = iteration
    /\ tokSum' = (IF tokPass = iteration THEN tokSum ELSE <<>>)
                  \o TokenDelta(IF tokPass = iteration THEN tokAcc ELSE <<>>,
                                tokAcc')
    /\ EmitEv(Ev("llm_token"))
    /\ UNCHANGED <<qvars, pc, acq, how, ppc, outq, profile, visual, hasAttach,
                   blockMap, mat, matBlocks, images, iteration, fuImages,
                   fuRois, persisted, texts, dvars, kvars, cvars, bvars, ids, raw,
                   finalText>>

\* a thinking chunk arrives
StreamThinking ==
    /\ Resumed({"stream"})
    /\ EmitEv(Ev("llm_thinking"))
    /\ UNCHANGED <<qvars, pc, acq, how, ppc, outq, profile, visual, hasAttach,
                   blockMap, mat, matBlocks, images, iteration, fuImages,
                   fuRois, persisted, texts, dvars, kvars, cvars, bvars, ids, raw, fed, tokAcc, tokPass, tvars>>

\* the stream breaks: the provider's exception reaches process_message
StreamRaise ==
    /\ Resumed({"stream"})
    /\ RaiseError

\* the stream is exhausted: parse_json and model_validate on the raw text
StreamEnd ==
    /\ Resumed({"stream"})
    /\ fed = Len(raw)
    /\ IF ParsesAsAnswer(raw)
       THEN /\ ppc' = "gate"
            /\ UNCHANGED <<qvars, pc, acq, evars, outq, profile, visual,
                           hasAttach, blockMap, mat, matBlocks, images,
                           iteration, fuImages, fuRois, persisted, imgEvents, prod,
                           texts, dvars, kvars, cvars, bvars, ids, raw, fed, tokAcc, tokPass, tvars>>
       ELSE RaiseError

\* mutant of QualityGate: the intent is not looked at
QualityGate_WithoutIntent(prof, vis, hasMat, blocks, imgs, ansI, ansR, cited, roiAns) ==
    IF ~ShouldForceRoiFollowup(TRUE, ansI, ansR, cited) THEN <<ansI, ansR>>
    ELSE IF hasMat /\ imgs = <<>> /\ SuggestFollowupImages(blocks, imgs) # <<>>
         THEN <<SuggestFollowupImages(blocks, imgs), <<>>>>
    ELSE IF prof = "simple"
         THEN IF ValidRois(roiAns.rois) # <<>> \/ roiAns.images # <<>>
              THEN <<roiAns.images, ValidRois(roiAns.rois)>>
              ELSE <<ansI, ansR>>
    ELSE <<roiAns.images, roiAns.rois>>

\* the follow-up requests the pass ends with: those of the answer, or those
\* the quality gate puts in their place (roiAns is what the ROI requester
\* gave: no requests at all when it gave nothing)
QualityGate(prof, vis, hasMat, blocks, imgs, ansI, ansR, cited, roiAns) ==
    IF ~ShouldForceRoiFollowup(vis, ansI, ansR, cited) THEN <<ansI, ansR>>
    ELSE IF hasMat /\ imgs = <<>> /\ SuggestFollowupImages(blocks, imgs) # <<>>
         THEN <<SuggestFollowupImages(blocks, imgs), <<>>>>
    ELSE IF prof = "simple"
         THEN IF ValidRois(roiAns.rois) # <<>> \/ roiAns.images # <<>>
              THEN <<roiAns.images, ValidRois(roiAns.rois)>>
              ELSE <<ansI, ansR>>
    ELSE <<roiAns.images, roiAns.rois>>

\* the ROI requester is called
CallsRequester(vis, hasMat, blocks, imgs, ansI, ansR, cited) ==
    /\ ShouldForceRoiFollowup(vis, ansI, ansR, cited)
    /\ ~(hasMat /\ imgs = <<>> /\ SuggestFollowupImages(blocks, imgs) # <<>>)

\* what the ROI requester can give when it is called
RequesterAnswers(called, names) ==
    IF called
    THEN [images : Batches(names),
          rois : Batches(names \X Boxes),
          given : {TRUE},
          text : RoiTexts]
         \cup {[images |-> <<>>, rois |-> <<>>, given |-> FALSE,
                text |-> <<>>]}
    ELSE {[images |-> <<>>, rois |-> <<>>, given |-> FALSE, text |-> <<>>]}

\* answer.answer_markdown after the quality gate of the complex profile:
\* `answer = roi_answer` when the requester gave an answer
GatedMarkdown(prof, text, roiAns) ==
    IF prof # "complex" THEN <<>>
    ELSE IF roiAns.given THEN roiAns.text
    ELSE AnswerMarkdown(text)

\* the block ids the answerer and the ROI requester proposed in one pass
Proposed(ansI, ansR, roiAns) ==
    Range(ansI) \cup Range(roiAns.images)
    \cup {r[1] : r \in Range(ansR) \cup Range(roiAns.rois)}

\* follow-ups were proposed and none of the ids passes the regex
AllIllFormed(S) == S # {} /\ \A b \in S : ~MatchesBlockId(b)

\* the events that announce a follow-up round
FollowupEvents(prof, fuI, fuR) ==
    (IF prof # "compare" /\ fuI # <<>> THEN <<Ev("tool_call")>> ELSE <<>>)
    \o (IF prof # "compare" /\ fuR # <<>> THEN <<Ev("tool_call")>> ELSE <<>>)
    \o <<Ev("phase_started")>>

\* the answer of the pass becomes final_answer at once: it asks for nothing
KeepsAnswer(fuI, fuR) == fuI = <<>> /\ fuR = <<>>

\* the answer of the pass is at hand: quality gate, then either the answer
\* is final or a follow-up round is announced
Gate ==
    /\ Resumed({"gate"})
    /\ \E ansI \in Batches(ids),
          ansR \in Batches(ids \X Boxes),
          cited \in BOOLEAN :
         \/ /\ CallsRequester(visual, mat, matBlocks, images, ansI, ansR, cited)
            /\ RequesterRaises(GateRecord(visual, ansI, ansR, cited, TRUE,
                                           <<ansI, ansR>>))
         \/ \E roiAns \in RequesterAnswers(
                   CallsRequester(visual, mat, matBlocks, images,
                                  ansI, ansR, cited), ids) :
              LET fu == QualityGate(profile, visual, mat, matBlocks, images,
                                    ansI, ansR, cited, roiAns)
              IN /\ IF KeepsAnswer(fu[1], fu[2])
                    THEN /\ ppc' = "final"
                         /\ YieldAll(<<>>)
                    ELSE /\ ppc' = "tools"
                         /\ YieldAll(FollowupEvents(profile, fu[1], fu[2]))
                 /\ fuImages' = fu[1]
                 /\ fuRois' = fu[2]
                 /\ finalText' = IF KeepsAnswer(fu[1], fu[2])
                                 THEN GatedMarkdown(profile, raw, roiAns)
                                 ELSE finalText
                 /\ gres' = GateRecord(visual, ansI, ansR, cited,
                                        CallsRequester(visual, mat, matBlocks,
                                                       images, ansI, ansR,
                                                       cited), fu)
                 /\ allBad' = AllIllFormed(Proposed(ansI, ansR, roiAns))
                 /\ UNCHANGED <<qvars, pc, acq, how, profile, visual,
                                hasAttach, blockMap, mat, matBlocks, images,
                                iteration, persisted, texts, dvars, kvars, cvars, seenKeys,
                                calls, ids, raw, fed, tokAcc, tokPass,
                                tokSum>>

\* SupabaseClient.add_message: the rows it adds; a failed insert is logged
\* and gives None
Stored(ok) == IF ok THEN 1 ELSE 0

\* final_answer is set: add_message, then llm_final
Finalize ==
    /\ Resumed({"final"})
    /\ \E ok \in BOOLEAN : persisted' = persisted + Stored(ok)
    /\ ppc' = "yfinal"
    /\ YieldAll(<<Ev("llm_final")>>)
    /\ gres' = NoGate
    /\ UNCHANGED <<qvars, pc, acq, how, profile, visual, hasAttach, blockMap,
                   mat, matBlocks, images, iteration, fuImages, fuRois,
                   texts, dvars, kvars, cvars, seenKeys, calls, allBad, ids, raw, fed,
                   tokAcc, tokPass, tvars>>

\* the mode generator is exhausted: process_message yields completed
Complete ==
    /\ Resumed({"yfinal"})
    /\ EmitEv(Ev("completed"))
    /\ pc' = [pc EXCEPT ![Obs] = "ylast"]
    /\ how' = "completed"
    /\ UNCHANGED <<qvars, acq, ppc, outq, profile, visual, hasAttach, blockMap,
                   mat, matBlocks, images, iteration, fuImages, fuRois,
                   persisted, texts, dvars, kvars, cvars, bvars, ids, raw, fed, tokAcc, tokPass, tvars>>

\* the steps of execute_with_queue for request r
QueueStep(r) ==
    \/ SubmitRejected(r)
    \/ SubmitEnqueued(r)
    \/ StartWait(r)
    \/ AcqBegin(r)
    \/ AcqTimeout(r)
    \/ AcqMove(r)
    \/ Tick(r)
    \/ ResumeWait(r)
    \/ Admitted(r)
    \/ TimedOut(r)
    \/ TimedOutReturn(r)
    \/ StartProducer(r)
    \/ ProdReturn(r)
    \/ Cancel(r)

\* the steps of process_message for Obs
PipeStep ==
    \/ Yield
    \/ Begin
    \/ ContextLoaded
    \/ AfterContext
    \/ TreeLoaded
    \/ ModeStart
    \/ FlashCollected
    \/ FactsExtracted
    \/ InitialBuild
    \/ LoopHead
    \/ StreamText
    \/ StreamThinking
    \/ StreamRaise
    \/ StreamEnd
    \/ Gate
    \/ FollowupBuild
    \/ AfterFollowup
    \/ Finalize
    \/ Complete

\* Spec: NumReq requests go through the queue; what their producers do in
\* between is left open
Next ==
    \E r \in Req :
        \/ QueueStep(r)
        \/ ProdTerminal(r)
        \/ ProdRaise(r)

Spec == Init /\ [][Next]_vars

\* ------------------------------------------------------------------------
\* SpecPipe: one request, Obs, is followed from its submission to the end
\* of its stream; the requests of Req are the other clients, already in the
\* queue when Obs arrives
\* ------------------------------------------------------------------------

\* the requests that hold the permits when Obs arrives at a busy service
Runners == {r \in Req : r <= MaxConcurrent}

\* the requests that fill the waiting set when Obs arrives at a full queue
Waiters == {r \in Req : r > MaxConcurrent /\ r <= MaxConcurrent + MaxSize}

RECURSIVE Ascending(_, _)
\* the members of S from i on, in ascending order
Ascending(S, i) ==
    IF i > NumReq THEN <<>>
    ELSE (IF i \in S THEN <<i>> ELSE <<>>) \o Ascending(S, i + 1)

\* the queue as Obs finds it: idle, all permits taken, or also no room left
\* in the waiting set
InitQueue(load) ==
    /\ active = IF load = "idle" THEN {} ELSE Runners
    /\ sem = IF load = "idle" THEN MaxConcurrent ELSE 0
    /\ waiting = IF load = "full" THEN Waiters ELSE {}
    /\ order = IF load = "full" THEN Ascending(Waiters, 1) ELSE <<>>
    /\ semWaiters = order
    /\ pc = [r \in Ids |->
               IF r = Obs THEN "new"
               ELSE IF load # "idle" /\ r \in Runners THEN "ylast"
               ELSE IF load = "full" /\ r \in Waiters THEN "wait"
               ELSE "done"]
    /\ acq = [r \in Ids |->
               IF r = Obs THEN "none"
               ELSE IF load = "full" /\ r \in Waiters THEN "blocked"
               ELSE IF load # "idle" /\ r \in Runners THEN "true"
               ELSE "none"]

InitPipe ==
    /\ \E load \in {"idle", "busy", "full"} : InitQueue(load)
    /\ cnt = [k \in Counted |-> 0]
    /\ last = "none"
    /\ how = "open"
    /\ PipeIdle
    /\ CacheFresh(TRUE, EmptyRows)
    /\ texts = PipeTexts
    /\ DeletionIdle
    /\ CoverageIdle
    /\ ids = AllIds

NextPipe ==
    \/ QueueStep(Obs)
    \/ PipeStep
    \/ \E r \in Req :
          \/ ProdReturn(r)
          \/ AcqMove(r)

SpecPipe == InitPipe /\ [][NextPipe]_vars

\* ------------------------------------------------------------------------
\* SpecLive: Obs arrives at an idle service, where it is admitted, and its
\* consumer reads the stream to its end.  A generator runs only when its consumer asks for the
\* next event, and every awaited call returns: no step that can be taken
\* is put off for ever.
\* ------------------------------------------------------------------------

\* the consumer asks for the next event of execute_with_queue; with free
\* permits no submission is rejected and no acquire times out
ConsumerReads ==
    \/ SubmitEnqueued(Obs)
    \/ StartWait(Obs)
    \/ AcqBegin(Obs)
    \/ AcqMove(Obs)
    \/ Tick(Obs)
    \/ ResumeWait(Obs)
    \/ Admitted(Obs)
    \/ StartProducer(Obs)
    \/ ProdReturn(Obs)

NextLive ==
    \/ ConsumerReads
    \/ PipeStep

InitLive ==
    /\ InitPipe
    /\ active = {}

SpecLive ==
    /\ InitLive
    /\ [][NextLive]_vars
    /\ WF_vars(NextLive)

\* ------------------------------------------------------------------------
\* SpecTok: the answerer loop of the complex profile over every raw text of
\* up to MaxJsonLen characters, from the pro_stage event on; the documents
\* have no IMAGE blocks
\* ------------------------------------------------------------------------

InitTok ==
    /\ waiting = {}
    /\ order = <<>>
    /\ active = {Obs}
    /\ sem = MaxConcurrent - 1
    /\ semWaiters = <<>>
    /\ pc = [r \in Ids |-> IF r = Obs THEN "run" ELSE "new"]
    /\ acq = [r \in Ids |-> IF r = Obs THEN "true" ELSE "none"]
    /\ cnt = [k \in Counted |-> IF k = "processing_started" THEN 1 ELSE 0]
    /\ last = "phase_started"
    /\ how = "open"
    /\ ppc = "loophead"
    /\ outq = <<>>
    /\ profile = "complex"
    /\ visual \in BOOLEAN
    /\ hasAttach = FALSE
    /\ blockMap = {}
    /\ mat = TRUE
    /\ matBlocks = {}
    /\ images = <<>>
    /\ iteration = 0
    /\ fuImages = <<>>
    /\ fuRois = <<>>
    /\ persisted = 0
    /\ imgEvents = [k \in AllKeys |-> 0]
    /\ prod = NoProd
    /\ texts = TokTexts
    /\ DeletionIdle
    /\ CoverageIdle
    /\ ids = {BadId}
    /\ raw = <<>>
    /\ fed = 0
    /\ tokAcc = <<>>
    /\ tokPass = 0
    /\ tokSum = <<>>
    /\ finalText = <<>>
    /\ CacheFresh(TRUE, EmptyRows)
    /\ seenKeys = {}
    /\ calls = {}
    /\ gres = NoGate
    /\ allBad = FALSE

NextTok ==
    \/ LoopHead
    \/ StreamText
    \/ StreamThinking
    \/ StreamRaise
    \/ StreamEnd
    \/ Gate
    \/ Yield
    \/ FollowupBuild
    \/ AfterFollowup
    \/ Finalize
    \/ Complete
    \/ ProdReturn(Obs)
    \/ Cancel(Obs)

SpecTok == InitTok /\ [][NextTok]_vars

\* ------------------------------------------------------------------------
\* SpecCache: the calls of the render cache in every order, over the keys of
\* CacheArgs and the payloads of Payloads, while the clock advances, backing
\* files get lost and the process restarts with another setting
\* ------------------------------------------------------------------------

\* everything but the render cache
rest == <<qvars, pc, acq, evars, ppc, outq, profile, visual, hasAttach,
          blockMap, mat, matBlocks, images, iteration, fuImages, fuRois,
          persisted, imgEvents, prod, texts, dvars, kvars, bvars, ids, raw, fed, tokAcc,
          tokPass, tvars>>

\* the keys invalidate(sid) deletes: cache_key LIKE sid || ":%"
Matching(rws, sid) == {k \in DOMAIN rws : Like(sid \o <<":", "%">>, k)}

\* the keys _make_cache_key builds for the source sid
KeysOfSource(sid) == {KeyOf(a) : a \in {x \in CacheArgs : x.sid = sid}}

\* RenderCacheManager.put(source_id, source_version, page, dpi, png_bytes,
\* bbox_norm)
CachePut(a, v) ==
    /\ IF cacheOn
       THEN \E e \in EnsureSpace(rows, Len(v), now) :
               /\ rows' = Upsert(e, KeyOf(a), v, now)
               /\ stored' = [Forget(stored, rows, rows') EXCEPT
                                 ![KeyOf(a)] = PutRecord(a, v, now)]
               /\ cres' = Removing(Result("put", a, TrueVal, FALSE, TRUE),
                                   rows, e)
       ELSE /\ cres' = Result("put", a, FalseVal, FALSE, TRUE)
            /\ UNCHANGED <<rows, stored>>
    /\ inval' = inval \ {KeyOf(a)}
    /\ UNCHANGED <<cacheOn, now, rest>>

\* RenderCacheManager.get(source_id, source_version, page, dpi, bbox_norm)
\* when the backing file of the row, if there is a row, is in place
CacheGet(a) ==
    LET g == GetOutcome(cacheOn, rows, KeyOf(a), now, TRUE)
    IN /\ rows' = g.rows
       /\ stored' = Forget(stored, rows, g.rows)
       /\ cres' = Result("get", a, g.out, g.hit, TRUE)
       /\ UNCHANGED <<cacheOn, now, inval, rest>>

\* RenderCacheManager.get when the backing file of the row has been
\* removed from the cache directory
CacheGetLost(a) ==
    LET g == GetOutcome(cacheOn, rows, KeyOf(a), now, FALSE)
    IN /\ KeyOf(a) \in DOMAIN rows
       /\ rows' = g.rows
       /\ stored' = [Forget(stored, rows, g.rows) EXCEPT
                         ![KeyOf(a)] = NoEntry]
       /\ cres' = Result("get", a, g.out, g.hit, FALSE)
       /\ UNCHANGED <<cacheOn, now, inval, rest>>

\* EvidenceService.render_pdf_page(pdf_bytes, source_id, source_version,
\* page, dpi), where v is the PNG of the page of pdf_bytes: the cached bytes
\* on a hit, else the fresh render, which is put into the cache
RenderPage(a, v) ==
    /\ a.bbox = NoBbox
    /\ LET g == GetOutcome(cacheOn, rows, KeyOf(a), now, TRUE)
       IN IF g.hit
          THEN /\ rows' = g.rows
               /\ cres' = Result("render", a, g.out, TRUE, TRUE)
               /\ UNCHANGED <<stored, inval>>
          ELSE /\ inval' = inval \ {KeyOf(a)}
               /\ IF cacheOn
                  THEN \E e \in EnsureSpace(g.rows, Len(v), now) :
                          /\ rows' = Upsert(e, KeyOf(a), v, now)
                          /\ stored' = [Forget(stored, rows, rows') EXCEPT
                                            ![KeyOf(a)] = PutRecord(a, v, now)]
                          /\ cres' = Removing(Result("render", a, v, FALSE,
                                                     TRUE), rows, e)
                  ELSE /\ cres' = Result("render", a, v, FALSE, TRUE)
                       /\ UNCHANGED <<rows, stored>>
    /\ UNCHANGED <<cacheOn, now, rest>>

\* render_pdf_page as build_roi calls it for the page pg on the table rws,
\* v being the PNG of the page of pdf_bytes: the tables it can leave, the
\* image it returns, and whether it put the page
PageOutcomes(rws, pg, v) ==
    LET g == GetOutcome(cacheOn, rws, KeyOf(pg), now, TRUE)
    IN IF g.hit
       THEN {[rows |-> g.rows, base |-> OpenPng(g.out), put |-> FALSE]}
       ELSE IF cacheOn
       THEN {[rows |-> Upsert(e, KeyOf(pg), v, now), base |-> OpenPng(v),
              put |-> TRUE] : e \in EnsureSpace(g.rows, Len(v), now)}
       ELSE {[rows |-> g.rows, base |-> OpenPng(v), put |-> FALSE]}

\* the arguments of a build_roi call: v is the PNG of the page of pdf_bytes
RoiCall(a, v) == [sid |-> a.sid, ver |-> a.ver, bbox |-> a.bbox, page |-> v]

\* EvidenceService.build_roi(pdf_bytes, source_id, source_version,
\* bbox_norm, page, dpi): the cached ROI on a hit; else the page is
\* rendered through render_pdf_page, cropped and scaled, and the PNG of the
\* crop is put into the cache
BuildRoi(a, v) ==
    /\ a.bbox # NoBbox
    /\ LET K == KeyOf(a)
           pg == [a EXCEPT !.bbox = NoBbox]
           g == GetOutcome(cacheOn, rows, K, now, TRUE)
       IN IF g.hit
          THEN /\ rows' = g.rows
               /\ cres' = [Result("roi", RoiCall(a, v), g.out, TRUE, TRUE)
                              EXCEPT !.img = CachedRoi(g.out, a.bbox)]
               /\ UNCHANGED <<stored, inval>>
          ELSE \E p \in PageOutcomes(g.rows, pg, v) :
                  LET roi == FreshRoi(p.base, a.bbox)
                      puts == IF p.put THEN {K, KeyOf(pg)} ELSE {K}
                  IN /\ cres' = [Result("roi", RoiCall(a, v), roi.png_bytes,
                                        FALSE, TRUE) EXCEPT !.img = roi]
                     /\ IF cacheOn
                        THEN /\ \E e \in EnsureSpace(p.rows,
                                                     Len(roi.png_bytes), now) :
                                   rows' = Upsert(e, K, roi.png_bytes, now)
                             /\ stored' =
                                   [k \in CacheKeys |->
                                      IF k = K
                                      THEN PutRecord(a, roi.png_bytes, now)
                                      ELSE IF k = KeyOf(pg) /\ p.put
                                      THEN IF k \in DOMAIN rows'
                                           THEN PutRecord(pg, v, now)
                                           ELSE NoEntry
                                      ELSE Forget(stored, rows, rows')[k]]
                             /\ inval' = inval \ puts
                        ELSE /\ rows' = p.rows
                             /\ inval' = inval \ {K}
                             /\ UNCHANGED stored
    /\ UNCHANGED <<cacheOn, now, rest>>

\* RenderCacheManager.invalidate(source_id)
CacheInvalidate(sid) ==
    LET r == Drop(rows, Matching(rows, sid))
    IN /\ rows' = r
       /\ stored' = Forget(stored, rows, r)
       /\ inval' = inval \cup KeysOfSource(sid)
       /\ cres' = Result("invalidate", sid, NoneVal, FALSE, TRUE)
       /\ UNCHANGED <<cacheOn, now, rest>>

\* RenderCacheManager.clear()
CacheClear ==
    /\ rows # EmptyRows
    /\ rows' = EmptyRows
    /\ stored' = [k \in CacheKeys |-> NoEntry]
    /\ cres' = Result("clear", <<>>, NoneVal, FALSE, TRUE)
    /\ UNCHANGED <<cacheOn, now, inval, rest>>

\* time passes
CacheTick ==
    /\ now < MaxTime
    /\ now' = now + 1
    /\ cres' = NoCall
    /\ UNCHANGED <<cacheOn, rows, stored, inval, rest>>

\* the process starts with the cache enabled or disabled, on an empty cache
\* directory or on one an earlier process left
InitCache ==
    /\ ServiceIdle
    /\ CoverageIdle
    /\ \E on \in BOOLEAN, rws \in {EmptyRows, LeftOver} : CacheFresh(on, rws)

NextCache ==
    \/ \E a \in CacheArgs, v \in Payloads : CachePut(a, v)
    \/ \E a \in CacheArgs : CacheGet(a)
    \/ \E a \in CacheArgs : CacheGetLost(a)
    \/ \E a \in CacheArgs, v \in Payloads : RenderPage(a, v)
    \/ \E a \in CacheArgs, v \in Payloads : BuildRoi(a, v)
    \/ \E sid \in SourceIds \cup ForeignIds : CacheInvalidate(sid)
    \/ CacheClear
    \/ CacheTick

SpecCache == InitCache /\ [][NextCache]_vars

\* ------------------------------------------------------------------------
\* SpecBuild: one call of _build_materials, item by item, over every batch
\* of up to MaxItems requested images and MaxItems requested ROIs
\* ------------------------------------------------------------------------

\* longest list of requests of one kind in a batch
MaxItems == 2

\* the id of the IMAGE block followed by a line feed
NlId == DocBlock \o <<"\n">>

\* the block ids a batch may name
BuildIds == {DocBlock, BadId, NlId}

\* what the search for the crop of block b can give: nothing, bytes that
\* are no PDF, or a PDF; the documents hold crops for their own blocks only
CropOutcomes(b) == IF b \in DocIds THEN {"none", "nonpdf", "pdf"} ELSE {"none"}

\* the part of the state _build_materials does not touch
unbuilt == <<qvars, pc, acq, evars, outq, profile, visual, hasAttach,
             blockMap, mat, matBlocks, iteration, persisted, imgEvents, prod,
             texts, dvars, kvars, cvars, gres, allBad, ids, raw, fed, tokAcc, tokPass, tvars>>

\* one request went through the loop body: cands are the renders it led
\* to, none when it was skipped before the renderer
ItemDone(cands) ==
    \E failKinds \in SUBSET {"overview", "quadrant", "roi"} :
        /\ images' = images \o UploadRenders(cands, seenKeys, failKinds)
        /\ seenKeys' = seenKeys \cup Range(cands)
        /\ ppc' = ppc

\* the renderer raises (a bbox of no area after clamping, a PDF that cannot
\* be opened): nothing catches it inside _build_materials
RenderRaises ==
    /\ ppc' = "raised"
    /\ UNCHANGED <<images, seenKeys>>

\* the loop body for the block id b: format check, search for the crop,
\* renderer, uploads
Item(b, isRoi, box) ==
    IF ~MatchesBlockId(b)
    THEN /\ ItemDone(<<>>)
         /\ UNCHANGED calls
    ELSE \E crop \in CropOutcomes(b) :
            IF crop # "pdf"
            THEN /\ calls' = calls \cup {<<"crop", b>>}
                 /\ ItemDone(<<>>)
            ELSE /\ calls' = calls \cup {<<"crop", b>>, <<"render", b>>}
                 /\ \/ RenderRaises
                    \/ \E large \in BOOLEAN :
                          ItemDone(IF isRoi
                                   THEN RoiCandidates(<<<<b, box>>>>, {b})
                                   ELSE ImageCandidates(<<b>>, {b}, large))

\* for req in requested_images
BuildImageItem ==
    /\ ppc = "build"
    /\ fuImages # <<>>
    /\ Item(Head(fuImages), FALSE, "none")
    /\ fuImages' = IF ppc' = "raised" THEN fuImages ELSE Tail(fuImages)
    /\ UNCHANGED <<fuRois, unbuilt>>

\* for roi in requested_rois
BuildRoiItem ==
    /\ ppc = "build"
    /\ fuImages = <<>>
    /\ fuRois # <<>>
    /\ Item(Head(fuRois)[1], TRUE, Head(fuRois)[2])
    /\ fuRois' = IF ppc' = "raised" THEN fuRois ELSE Tail(fuRois)
    /\ UNCHANGED <<fuImages, unbuilt>>

\* both loops are through: the materials are returned
BuildReturn ==
    /\ ppc = "build"
    /\ fuImages = <<>>
    /\ fuRois = <<>>
    /\ ppc' = "built"
    /\ UNCHANGED <<fuImages, fuRois, images, seenKeys, calls, unbuilt>>

InitBuild ==
    /\ waiting = {}
    /\ order = <<>>
    /\ active = {Obs}
    /\ sem = MaxConcurrent - 1
    /\ semWaiters = <<>>
    /\ pc = [r \in Ids |-> IF r = Obs THEN "run" ELSE "new"]
    /\ acq = [r \in Ids |-> IF r = Obs THEN "true" ELSE "none"]
    /\ cnt = [k \in Counted |-> IF k = "processing_started" THEN 1 ELSE 0]
    /\ last = "phase_started"
    /\ how = "open"
    /\ ppc = "build"
    /\ outq = <<>>
    /\ profile = "complex"
    /\ visual = FALSE
    /\ hasAttach = FALSE
    /\ blockMap = DocIds
    /\ mat = FALSE
    /\ matBlocks = {}
    /\ images = <<>>
    /\ iteration = 0
    /\ fuImages \in SeqsUpTo(BuildIds, MaxItems)
    /\ fuRois \in SeqsUpTo(BuildIds \X Boxes, MaxItems)
    /\ persisted = 0
    /\ imgEvents = [k \in AllKeys |-> 0]
    /\ prod = NoProd
    /\ texts = {}
    /\ DeletionIdle
    /\ CoverageIdle
    /\ ids = BuildIds
    /\ raw = <<>>
    /\ fed = 0
    /\ tokAcc = <<>>
    /\ tokPass = 0
    /\ tokSum = <<>>
    /\ finalText = <<>>
    /\ CacheFresh(TRUE, EmptyRows)
    /\ seenKeys = {}
    /\ calls = {}
    /\ gres = NoGate
    /\ allBad = FALSE

NextBuild ==
    \/ BuildImageItem
    \/ BuildRoiItem
    \/ BuildReturn

SpecBuild == InitBuild /\ [][NextBuild]_vars

\* ------------------------------------------------------------------------
\* SpecDel: chats are scheduled for deletion, the worker runs their
\* cascades and stop() is called, in every order the event loop allows.
\* No call of _process_deletion suspends, so the worker runs from one
\* queue.get() that finds the queue empty to the next, or to its end,
\* with no other task in between
\* ------------------------------------------------------------------------

\* everything but the deletion service
undeleted == <<qvars, pc, acq, evars, ppc, outq, profile, visual, hasAttach,
               blockMap, mat, matBlocks, images, iteration, fuImages,
               fuRois, persisted, imgEvents, prod, texts, kvars, cvars,
               bvars, ids, raw, fed, tokAcc, tokPass, tvars>>

\* schedule_deletion(chat_id): the task of queue.put(chat_id) is created
ScheduleDeletion(c) ==
    /\ Suspended
    /\ c \notin Scheduled
    /\ ready' = Append(ready, c)
    /\ before' = IF spc = "idle" THEN before \cup {c} ELSE before
    /\ UNCHANGED <<dq, running, wpc, cur, todo, steps, processed, spc, late,
                   undeleted>>

\* the task of queue.put(chat_id) runs
PutTask ==
    /\ Suspended
    /\ ready # <<>>
    /\ Head(ready) # WorkerStep
    /\ QueuePut(Head(ready))
    /\ UNCHANGED <<running, cur, todo, steps, processed, spc, late, before,
                   undeleted>>

\* the worker task runs: for the first time, up to the test of its loop,
\* or from the queue.get() it was blocked in
WorkerResume ==
    /\ ready # <<>>
    /\ Head(ready) = WorkerStep
    /\ ready' = Tail(ready)
    /\ IF wpc = "start"
       THEN /\ wpc' = "head"
            /\ UNCHANGED <<dq, cur, steps>>
       ELSE IF wpc = "woken"
       THEN TakeItem
       ELSE UNCHANGED <<dq, wpc, cur, steps>>
    /\ UNCHANGED <<running, todo, processed, spc, late, before, undeleted>>

\* while self._running: chat_id = await self._queue.get()
WorkerLoop ==
    /\ wpc = "head"
    /\ IF ~running
       THEN /\ wpc' = "exit"
            /\ UNCHANGED <<dq, cur, steps>>
       ELSE IF dq = <<>>
       THEN /\ wpc' = "blocked"
            /\ UNCHANGED <<dq, cur, steps>>
       ELSE TakeItem
    /\ UNCHANGED <<ready, running, todo, processed, spc, late, before,
                   undeleted>>

\* _get_storage_paths: the paths of the chat's files, none when the query
\* fails
GetStoragePaths ==
    /\ wpc = "list"
    /\ \E ok \in BOOLEAN, n \in 0..MaxPaths :
          /\ todo' = IF ok THEN n ELSE 0
          /\ steps' = Append(steps, Step("list", n, ok))
    /\ wpc' = "r2"
    /\ UNCHANGED <<dq, ready, running, cur, processed, spc, late, before,
                   undeleted>>

\* _delete_r2_files, one path: delete_file, which may fail
DeleteR2File ==
    /\ wpc = "r2"
    /\ todo > 0
    /\ \E ok \in BOOLEAN : steps' = Append(steps, Step("object", todo, ok))
    /\ todo' = todo - 1
    /\ UNCHANGED <<dq, ready, running, wpc, cur, processed, spc, late, before,
                   undeleted>>

\* _delete_local_logs: the log file is unlinked, which may fail
DeleteLocalLogs ==
    /\ wpc = "r2"
    /\ todo = 0
    /\ \E ok \in BOOLEAN : steps' = Append(steps, Step("log", 0, ok))
    /\ wpc' = "db"
    /\ UNCHANGED <<dq, ready, running, cur, todo, processed, spc, late,
                   before, undeleted>>

\* delete_chat_cascade, one table: its delete raises or the next table is
\* up; after the last table, or in the except block, _process_deletion
\* returns and task_done() is called
DeleteRows ==
    /\ wpc = "db"
    /\ LET t == Tables[Len(RowSteps(steps)) + 1]
       IN \E ok \in BOOLEAN :
             /\ steps' = Append(steps, Step("rows", t, ok))
             /\ IF ok /\ Len(RowSteps(steps')) < Len(Tables)
                THEN UNCHANGED <<wpc, cur, processed>>
                ELSE /\ wpc' = "head"
                     /\ cur' = 0
                     /\ processed' = processed \cup {cur}
    /\ UNCHANGED <<dq, ready, running, todo, spc, late, before, undeleted>>

\* stop() up to wait_for: _running = False, queue.put(None)
StopCall ==
    /\ Suspended
    /\ spc = "idle"
    /\ running' = FALSE
    /\ dq' = Append(dq, StopSignal)
    /\ IF wpc = "blocked"
       THEN /\ wpc' = "woken"
            /\ ready' = Append(ready, WorkerStep)
       ELSE UNCHANGED <<wpc, ready>>
    /\ spc' = "waiting"
    /\ UNCHANGED <<cur, todo, steps, processed, late, before, undeleted>>

\* the 10 seconds of wait_for pass
DeadlinePasses ==
    /\ Suspended
    /\ spc = "waiting"
    /\ ~late
    /\ late' = TRUE
    /\ UNCHANGED <<dq, ready, running, wpc, cur, todo, steps, processed, spc,
                   before, undeleted>>

\* except asyncio.TimeoutError: the worker task is cancelled
StopTimeout ==
    /\ spc = "waiting"
    /\ late
    /\ wpc \in {"blocked", "woken"}
    /\ wpc' = "cancelled"
    /\ spc' = "stopped"
    /\ UNCHANGED <<dq, ready, running, cur, todo, steps, processed, late,
                   before, undeleted>>

\* the worker task is done: wait_for returns and stop() with it
StopReturn ==
    /\ spc = "waiting"
    /\ wpc = "exit"
    /\ spc' = "stopped"
    /\ UNCHANGED <<dq, ready, running, wpc, cur, todo, steps, processed, late,
                   before, undeleted>>

NextDel ==
    \/ \E c \in ChatIds : ScheduleDeletion(c)
    \/ PutTask
    \/ WorkerResume
    \/ WorkerLoop
    \/ GetStoragePaths
    \/ DeleteR2File
    \/ DeleteLocalLogs
    \/ DeleteRows
    \/ StopCall
    \/ DeadlinePasses
    \/ StopTimeout
    \/ StopReturn

SpecDel == Init /\ [][NextDel]_vars

\* ------------------------------------------------------------------------
\* SpecCov: _apply_coverage_check on every collector response over every
\* block map of LinkMaps
\* ------------------------------------------------------------------------

\* the coverage check of the response at hand
ApplyCoverageCheck ==
    /\ ~covered
    /\ \E extra \in AdditionalBlocks(
               selectedIds \cup FindLinkedBlocks(selectedIds, linkMap),
               linkMap) :
          selectedIds' = CoverageResult(selectedIds, linkMap, extra)
    /\ covered' = TRUE
    /\ UNCHANGED <<linkMap, flashSel>>
    /\ UNCHANGED <<qvars, pc, acq, evars, ppc, outq, profile, visual,
                   hasAttach, blockMap, mat, matBlocks, images, iteration,
                   fuImages, fuRois, persisted, imgEvents, prod, texts,
                   dvars, cvars, bvars, ids, raw, fed, tokAcc, tokPass, tvars>>

InitCov ==
    /\ ServiceIdle
    /\ CacheFresh(TRUE, EmptyRows)
    /\ linkMap \in LinkMaps
    /\ selectedIds \in SUBSET CovIds
    /\ flashSel = selectedIds
    /\ covered = FALSE

NextCov == ApplyCoverageCheck

SpecCov == InitCov /\ [][NextCov]_vars

\* ------------------------------------------------------------------------
\* Claims about the request queue
\* ------------------------------------------------------------------------

\* request r was admitted and its slot is not yet released
Running(r) == pc[r] \in {"run", "ylast"}

\* some request or acquire task is still in flight
InFlight(r) ==
    \/ pc[r] \notin {"new", "done", "rejected"}
    \/ acq[r] \in {"sched", "blocked", "got"}

\* C1: in every reachable state at most max_concurrent requests have their
\* producer running (admitted and not yet released).
C1_AtMostMaxConcurrentRunning ==
    Cardinality({r \in Req : Running(r)}) <= MaxConcurrent

\* C2: semaphore permits are conserved: the free permits never exceed
\* max_concurrent, and equal max_concurrent whenever no request is in flight.
C2_PermitsConserved ==
    /\ sem <= MaxConcurrent
    /\ (\A r \in Req : ~InFlight(r)) => sem = MaxConcurrent

\* C3: once the stream of a request has ended, its id is in none of the
\* waiting set, the ordered list and the active set.
C3_EndedRequestIsGone ==
    \A r \in Req :
        Ended(r) =>
            /\ r \notin waiting
            /\ r \notin active
            /\ IndexOf(order, r) = 0

\* ------------------------------------------------------------------------
\* Claims about the stream of one request
\* ------------------------------------------------------------------------

\* the stream of Obs ran to its end: it was not closed by the consumer
RanToEnd == Ended(Obs) /\ how # "closed"

\* C4: every request stream that runs to its end (queue-full and admission
\* timeout included) holds exactly one terminal event, completed or error,
\* and that event is its last one.
C4_OneTerminalEventLast ==
    RanToEnd =>
        /\ cnt["completed"] + cnt["error"] = 1
        /\ last \in {"completed", "error"}

\* C4 witness: a stream that streamed tokens and stored its answer has run
\* to its end with completed
C4_Witness ==
    /\ RanToEnd
    /\ how = "completed"
    /\ cnt["llm_token"] > 0
    /\ cnt["llm_final"] = 1

\* C5: a stream that ends with completed has exactly one assistant message
\* persisted for its request.
C5_CompletedHasOneAssistantMessage ==
    last = "completed" => persisted = 1

\* C6: when the stream has an error event, or it was closed before the
\* final answer went out, no assistant message is persisted for the request.
C6_NoAssistantMessageOnErrorOrCancel ==
    (cnt["error"] > 0 \/ (how = "closed" /\ cnt["llm_final"] = 0))
        => persisted = 0

\* C6 witness: the error event came after a follow-up round had rendered
\* images, and nothing is stored
C6_Witness ==
    /\ pc[Obs] = "ylast"
    /\ how = "error"
    /\ iteration >= 2
    /\ images # <<>>
    /\ persisted = 0

\* C7: when the 5th answerer pass still asks for follow-ups, its answer is
\* final: it is persisted and the stream ends with llm_final, completed.
\* (The loop is back at its head with iteration = 5 only when each of the
\* five passes asked for follow-ups.)
C7_FifthPassAnswerIsFinal ==
    (pc[Obs] = "ylast" /\ iteration = MaxIterations /\ ppc = "loophead")
        => /\ last = "completed"
           /\ cnt["llm_final"] = 1
           /\ persisted = 1

\* C8: within one request stream at most one image_ready goes out for any
\* (block_id, kind, bbox), follow-up rebuilds included.
C8_ImageReadyAtMostOnce ==
    \A k \in AllKeys : imgEvents[k] <= 1

C10_QueueFullExactlyAtCap ==
    [][\A r \in Ids :
          (pc[r] = "new" /\ pc'[r] # "new") =>
              /\ (pc'[r] = "rejected") <=> (Cardinality(waiting) >= MaxSize)
              /\ (pc'[r] = "rejected") =>
                     UNCHANGED <<waiting, order, active, sem, semWaiters>>]_vars

\* C10 witness: a request was rejected while the waiting set was at its cap
\* and other requests were active
C10_Witness ==
    \E r \in Req :
        /\ pc[r] = "rejected"
        /\ Cardinality(waiting) = MaxSize
        /\ active # {}

\* ------------------------------------------------------------------------
\* Claims about a burst of submissions and about the admission timeout
\* ------------------------------------------------------------------------

\* the requests submitted so far, and those enqueue turned away
Submitted == {r \in Req : pc[r] # "new"}

Rejected == {r \in Req : pc[r] = "rejected"}

\* C11: of the submissions made at once to an idle queue, max_concurrent are
\* admitted, max_size wait, and only those beyond max_concurrent + max_size
\* are rejected (2 + 3 + 1 for 6 submissions in the claim's numbers);
\* stated while no stream of the burst has ended in another way.
C11_BurstFillsSlotsThenQueue ==
    (\A r \in Req : pc[r] # "done") =>
        Cardinality(Rejected) <=
            IF Cardinality(Submitted) > MaxConcurrent + MaxSize
            THEN Cardinality(Submitted) - (MaxConcurrent + MaxSize)
            ELSE 0

\* C12: a waiting request that is not admitted within the admission timeout
\* is removed from the waiting set and the ordered list, its stream holds
\* exactly one error event and no processing_started, and its producer is
\* never started.
C12_TimeoutRemovesAndReportsOnce ==
    how = "timeout" =>
        /\ Obs \notin waiting
        /\ IndexOf(order, Obs) = 0
        /\ cnt["error"] = 1
        /\ cnt["processing_started"] = 0
        /\ last = "error"
        /\ ppc = "idle"

\* C12 witness: the stream of Obs ended by the admission timeout while the
\* requests that hold the slots are still active
C12_Witness ==
    /\ how = "timeout"
    /\ pc[Obs] = "done"
    /\ active # {}

\* ------------------------------------------------------------------------
\* Claims about follow-up requests and the materials builder
\* ------------------------------------------------------------------------

\* C19: when every block id proposed as a follow-up in a pass fails the
\* regex, the answerer loop does not start another pass
C19_NoSecondPassAfterIllFormed ==
    [][allBad => iteration' <= iteration]_vars

\* the id has the form XXXX-XXXX-XXX: thirteen characters, capital letters
\* and digits around the two hyphens
IsCanonicalId(b) ==
    /\ Len(b) = 13
    /\ \A i \in 1..13 :
          IF i \in {5, 10} THEN b[i] = "-" ELSE b[i] \in AlphaNum

\* C18: the materials builder looks up a crop, and calls a renderer, only
\* for requests whose block id has the form XXXX-XXXX-XXX
C18_OnlyCanonicalIdsLookedUp == \A c \in calls : IsCanonicalId(c[2])

\* C20: no request of a batch makes the materials builder end with an
\* exception: a request that fails is skipped and the next one is handled
C20_ItemFailureNeverAbortsBatch == ppc # "raised"

\* C21: the quality gate puts follow-up requests in the place of the
\* answer's own, or calls the ROI requester, only when
\* requires_visual_detail is true, the answer cites no ROI and the answer
\* asks for nothing; with requires_visual_detail false (the empty intent
\* included) the answer's requests stay as they are and the ROI requester
\* is not called.
C21_GateOnlyForUncoveredVisual ==
    gres.ran =>
        /\ (gres.called \/ ~gres.same)
              => gres.vis /\ gres.bare
        /\ ~gres.vis => gres.same /\ ~gres.called

\* the gate ran on a visual question whose answer cited no ROI and asked
\* for nothing, and the ROI requester's requests took the place
C21_Witness ==
    /\ gres.ran /\ gres.vis /\ gres.called /\ ~gres.same
    /\ how = "open"

\* C22: in a stream that contains completed there is exactly one llm_final,
\* it comes before completed, and the assistant message is stored before
\* llm_final goes out: at the step that emits completed one llm_final is
\* out and a message is stored, and no llm_final follows.
C22_FinalOnceAfterPersistBeforeCompleted ==
    /\ [](cnt["completed"] >= 1 => cnt["llm_final"] = 1)
    /\ [][cnt'["completed"] > cnt["completed"]
            => cnt["llm_final"] = 1 /\ persisted >= 1]_vars

\* ------------------------------------------------------------------------
\* Claims about the event stream and the queue's lists
\* ------------------------------------------------------------------------

\* C26: a run of the simple profile over referenced documents that ends
\* with completed has sent at least one llm_token and exactly one
\* llm_final, completed comes right after llm_final, and there is no
\* image_ready when no image was asked for.  (These follow from the order
\* of events the claim gives.)
C26_SimpleRunStreamsThenCompletes ==
    /\ [](  (last = "completed" /\ profile = "simple" /\ blockMap # {})
            => /\ cnt["llm_token"] >= 1
               /\ cnt["llm_final"] = 1
               /\ images = <<>> => \A k \in AllKeys : imgEvents[k] = 0)
    /\ [][(cnt'["completed"] > cnt["completed"] /\ profile = "simple")
            => last = "llm_final"]_vars

\* C27: the waiting set and the active set are disjoint, and the ordered
\* list holds the ids of the waiting set and no other, each once, in the
\* order they were enqueued (ids are handed out in ascending order).
C27_ListsAgree ==
    /\ waiting \cap active = {}
    /\ Range(order) = waiting
    /\ Len(order) = Cardinality(waiting)
    /\ \A i, j \in 1..Len(order) : i < j => order[i] < order[j]

\* two requests run and the waiting set is full, one of its requests
\* having come there after another left
C27_Witness ==
    /\ Cardinality(active) = MaxConcurrent
    /\ Cardinality(waiting) = MaxSize
    /\ \E r \in Req : r < order[1] /\ pc[r] = "done" /\ acq[r] = "none"

\* the position a queue_position event of r carries, sent in this step
Reported(r) == Position(r, waiting', order')

\* C28: a queue_position event of request r carries position 1 + the
\* number of requests of the waiting set that were enqueued before r, which
\* lies between 1 and queue_size; a request enqueued while MaxConcurrent
\* requests are active and none is waiting gets position 1.
C28_PositionCountsEarlierWaiting ==
    [][\A r \in Req :
          (pc'[r] \in {"yqpos0", "yqpos"} /\ pc[r] # pc'[r]) =>
             /\ Reported(r) = 1 + Cardinality({q \in waiting' : q < r})
             /\ 1 <= Reported(r)
             /\ Reported(r) <= Cardinality(waiting')
             /\ (pc[r] = "new" /\ Cardinality(active) = MaxConcurrent
                   /\ waiting = {}) => Reported(r) = 1]_vars

\* a periodic queue_position went out to a request that is second in line
\* while all permits are taken
C28_Witness ==
    /\ Cardinality(active) = MaxConcurrent
    /\ \E r \in Req : pc[r] = "yqpos" /\ Position(r, waiting, order) = 2

\* C29: an admitted request gets processing_started exactly once, after its
\* last queue_position and before the first event of the producer; from
\* then on the stream carries the events the producer yielded, in its
\* order, none changed, lost or doubled.
C29_StartedOnceThenForwarded ==
    /\ cnt["processing_started"] <= 1
    /\ pc[Obs] \in {"ystart", "run", "ylast"} => cnt["processing_started"] = 1
    /\ cnt["processing_started"] = 1 => last # "queue_position"
    /\ prod.last # "none" =>
          /\ cnt["processing_started"] = 1
          /\ last = prod.last
          /\ \A k \in Counted \ {"processing_started"} : cnt[k] = prod.n[k]

\* the stream of a request that had to wait ended with completed after
\* tokens, thinking and a final answer went through
C29_Witness ==
    /\ how = "completed"
    /\ prod.last = "completed"
    /\ prod.n["llm_token"] >= 1
    /\ prod.n["llm_final"] = 1
    /\ \E r \in Runners : pc[r] = "done"

\* C33: when the intent router fails, the step sends no error event and
\* the pipeline goes on to its next stage with requires_visual_detail
\* false; the quality gate of every later pass then neither calls the ROI
\* requester nor changes the follow-up requests of the answer.
C33_RouterFailureIsSilent ==
    /\ [](gres.unrouted => ~visual)
    /\ [](gres.ran /\ gres.unrouted => ~gres.called /\ gres.same)
    /\ [][(gres'.unrouted /\ ~gres.unrouted)
            => /\ cnt'["error"] = cnt["error"]
               /\ last' # "error"
               /\ pc'[Obs] = "run"
               /\ ppc' \in {"loophead", "flash"}]_vars

\* the router failed, and the gate has run on an answer that neither cites
\* a ROI nor asks for anything, in a second pass
C33_Witness ==
    /\ gres.ran
    /\ gres.unrouted
    /\ gres.bare
    /\ iteration >= 2

\* C34: the answerer is invoked at most MaxIterations (5) times for a
\* request, and a request that was admitted, all calls returning, gets a
\* terminal event as the last event of its stream and gives up its slot.
C34_BoundedPassesThenTerminalAndRelease ==
    /\ [](iteration <= MaxIterations)
    /\ (cnt["processing_started"] = 1)
          ~> (/\ pc[Obs] = "done"
              /\ last \in {"completed", "error"}
              /\ Obs \notin active
              /\ acq[Obs] = "none")

\* the fifth pass of the answerer is over and the terminal event is out
C34_Witness ==
    /\ iteration = MaxIterations
    /\ cnt["processing_started"] = 1
    /\ last \in {"completed", "error"}
    /\ pc[Obs] \in {"ylast", "yperr"}

\* C35: within one answerer pass of the complex profile, the token fields
\* of the llm_token events sent so far, put one after the other, are the
\* accumulated field of the latest of them, however the provider cuts the
\* text into chunks.
C35_TokensAddUpToAccumulated ==
    tokPass # 0 => tokSum = tokAcc

\* C36: in the complex profile the content of llm_final is the accumulated
\* field of the last llm_token event of the final pass, also when the
\* quality gate called the ROI requester.
C36_FinalIsLastAccumulated ==
    (profile = "complex" /\ last = "llm_final")
        => (tokPass = iteration /\ finalText = tokAcc)

\* C37: a request is not moved to the active set while a request that was
\* enqueued before it, and whose stream has not ended, is in the waiting
\* set.
C37_AdmittedInEnqueueOrder ==
    [][\A r \in Req :
          (r \in active' /\ r \notin active)
             => \A q \in waiting' : q < r => Ended(q)]_vars

\* the key begins with the literal string p
HasPrefix(k, p) == Len(k) >= Len(p) /\ SubSeq(k, 1, Len(p)) = p

\* C38: invalidate(S) leaves every entry whose key does not begin with the
\* literal prefix "S:" as it was (row, payload and last access), for every
\* source id S, also one holding % or _ or differing from another id by
\* letter case only
C38_InvalidateKeepsOtherPrefixes ==
    [][cres'.op = "invalidate"
          => \A k \in DOMAIN rows :
                ~HasPrefix(k, cres'.args \o <<":">>)
                   => (k \in DOMAIN rows' /\ rows'[k] = rows[k])]_vars

\* what build_roi returns for the arguments c when it renders afresh
FreshOf(c) == FreshRoi(OpenPng(c.page), c.bbox)

\* C39: build_roi returns the same RenderedImage fields (png_bytes, width,
\* height, scale_factor, bbox_norm) when it serves the ROI from the cache
\* as when it renders it afresh: a call that hits the entry a fresh render
\* of the same arguments stored returns what that fresh render returns
C39_CachedRoiEqualsFreshRoi ==
    [][(/\ cres'.op = "roi"
        /\ cres'.hit
        /\ stored[KeyOf(cres'.args)].sid = cres'.args.sid
        /\ stored[KeyOf(cres'.args)].ver = cres'.args.ver
        /\ stored[KeyOf(cres'.args)].bbox = cres'.args.bbox
        /\ stored[KeyOf(cres'.args)].val = FreshOf(cres'.args).png_bytes)
          => cres'.img = FreshOf(cres'.args)]_vars

\* C31: the materials never hold two images with the same (block_id,
\* kind, bbox), and a follow-up rebuild keeps every image and every block
\* the materials held before it.
C31_MaterialsGrowWithoutDuplicates ==
    /\ [](\A i, j \in 1..Len(images) : i # j => images[i] # images[j])
    /\ [][(ppc = "tools" /\ ppc' = "built")
            => /\ Range(images) \subseteq Range(images')
               /\ Len(images') >= Len(images)
               /\ SubSeq(images', 1, Len(images)) = images
               /\ matBlocks \subseteq matBlocks']_vars

\* a second follow-up rebuild is done, on materials that already held the
\* overview of the block whose images were asked for again
C31_Witness ==
    /\ ppc = "built"
    /\ iteration >= 2
    /\ Len(images) >= 5
    /\ images[1][2] = "overview"
    /\ \E i \in 2..Len(images) : images[i][1] = images[1][1]

\* ------------------------------------------------------------------------
\* Claims about the deletion worker
\* ------------------------------------------------------------------------

\* the place of a step in the order the claim gives
StepRank(x) ==
    IF x.s = "list" THEN 1
    ELSE IF x.s = "object" THEN 2
    ELSE IF x.s = "log" THEN 3
    ELSE IF x.what = "chat_images" THEN 4
    ELSE IF x.what = "messages" THEN 5
    ELSE 6

\* C23: the steps of a chat's cascade happen in this order: the storage
\* paths are read first, then come the deletions from the object store,
\* then the log file, then the rows of chat_images, of messages and of
\* chats, each table once.
C23_CascadeStepsInOrder ==
    /\ steps # <<>> => steps[1].s = "list"
    /\ \A i, j \in 1..Len(steps) :
          i < j => /\ StepRank(steps[i]) <= StepRank(steps[j])
                   /\ StepRank(steps[i]) = StepRank(steps[j])
                         => steps[i].s = "object"

\* a cascade went through all its steps for a chat with MaxPaths files
C23_Witness ==
    /\ cur = 0
    /\ Len(steps) = MaxPaths + 5
    /\ steps[Len(steps)] = Step("rows", "chats", TRUE)
    /\ Len(ObjectSteps(steps)) = MaxPaths

\* C24: a step of a cascade that fails keeps none of the later steps from
\* being attempted: when _process_deletion has returned, every path that
\* was listed was handed to the object store, the log file was dealt with
\* and the rows of all three tables were deleted or tried, and the worker
\* is back at its loop.
C24_FailureSkipsNoStep ==
    (cur = 0 /\ steps # <<>>) =>
        /\ Len(ObjectSteps(steps)) = (IF steps[1].ok THEN steps[1].what ELSE 0)
        /\ \E i \in 1..Len(steps) : steps[i].s = "log"
        /\ Len(RowSteps(steps)) = Len(Tables)
        /\ wpc \notin {"list", "r2", "db"}

\* C25: once stop() was called, the worker ends only after it processed
\* every chat id that was scheduled before the call, unless the 10 seconds
\* have passed; and the worker task is cancelled only after they passed.
C25_StopDrainsThenCancels ==
    /\ [](wpc = "exit" /\ ~late => before \subseteq processed)
    /\ [][wpc' = "cancelled" /\ wpc # "cancelled" => late]_vars

\* ------------------------------------------------------------------------
\* Claims about the coverage check
\* ------------------------------------------------------------------------

\* C30: after the coverage check the selected set is closed under the links
\* of the block map: a block of the map that a selected block links to is
\* selected, and a block of the map that links to a selected block is
\* selected.
C30_ResultClosedUnderLinks ==
    covered =>
        /\ \A a \in selectedIds \cap DOMAIN linkMap :
              linkMap[a] \cap DOMAIN linkMap \subseteq selectedIds
        /\ \A a \in DOMAIN linkMap :
              linkMap[a] \cap selectedIds # {} => a \in selectedIds

\* ------------------------------------------------------------------------
\* Claims about the render cache
\* ------------------------------------------------------------------------

\* the key of the call that was made last
LastKey == KeyOf(cres.args)

C14_InvalidatedStaysGone ==
    [][(cres'.op = "get" /\ KeyOf(cres'.args) \in inval)
          => cres'.out = NoneVal]_vars

\* a get missed on an invalidated key while the entry of another source,
\* which was not invalidated, is still in the table
C14_Witness ==
    /\ cres.op = "get"
    /\ LastKey \in inval
    /\ cres.out = NoneVal
    /\ cacheOn
    /\ \E k \in DOMAIN rows : k \notin inval

\* C15: after every put, get, invalidate and clear the sizes of the entries
\* in the table sum to at most max_size_bytes
C15_TotalSizeWithinLimit == TotalSize(rows) <= MaxBytes

\* the row of key K exists, is not older than the TTL and has its file
Live(K) ==
    /\ K \in DOMAIN rows
    /\ now - rows[K].created <= TtlTicks
    /\ cres'.file

\* what C16 says of one step that is a get for the key K
GetContract(K) ==
    /\ cres'.out # NoneVal <=> Live(K)
    /\ (K \in DOMAIN rows /\ ~Live(K)) => K \notin DOMAIN rows'
    /\ Live(K) => /\ cres'.out = rows[K].val
                  /\ rows'[K].access = now

C17_VersionsNeverShareBytes ==
    /\ \A sid \in SourceIds, b \in {NoBbox, <<"b", "'">>} :
          \A v1 \in Versions, v2 \in Versions :
              v1 # v2 => MakeCacheKey(sid, v1, b) # MakeCacheKey(sid, v2, b)
    /\ [][(cres'.op \in {"get", "render"} /\ cres'.hit)
             => LET put == stored[KeyOf(cres'.args)]
                IN (put.sid = cres'.args.sid /\ put.bbox = cres'.args.bbox)
                      => put.ver = cres'.args.ver]_vars

\* a render of one version was served from the cache while the table also
\* holds the entry of the other version of the same source
C17_Witness ==
    /\ cres.op = "render"
    /\ cres.hit
    /\ cres.args.ver = <<"w">>
    /\ MakeCacheKey(cres.args.sid, <<"v">>, NoBbox) \in DOMAIN rows
    /\ rows[LastKey].val # rows[MakeCacheKey(cres.args.sid, <<"v">>, NoBbox)].val

\* the rows a put or a render that missed finds expired
Stale == {k \in DOMAIN rows : Expired(rows[k], now)}

\* C32: a put with the cache enabled removes every row past its TTL, and
\* each other row it removes was accessed no later than every row it
\* keeps: a row read more recently is not evicted while a row accessed
\* less recently stays.
C32_ExpiredFirstThenLeastRecent ==
    [][(cacheOn /\ cres'.op \in {"put", "render"} /\ ~cres'.hit) =>
          /\ Stale \subseteq cres'.removed
          /\ \A e \in cres'.removed \ Stale :
                \A k \in DOMAIN rows \ cres'.removed :
                   rows[e].access <= rows[k].access]_vars

\* a put evicted a row, none being past its TTL, and kept a row that a get
\* had hit since it was stored
C32_Witness ==
    /\ cres.op = "put"
    /\ cres.removed # {}
    /\ now <= TtlTicks
    /\ \E k \in DOMAIN rows \ {KeyOf(cres.args)} :
          rows[k].access > rows[k].created

====
